---- MODULE Spec2Model ----
(***************************************************************************)
(* A model of the rendering core of ray-tracer-challenge: tuples, 4x4      *)
(* matrices, rays, shapes, intersections, lighting and the world's         *)
(* recursive color_at.                                                     *)
(*                                                                         *)
(* Numbers.  The program computes in f32.  The model computes in decimal   *)
(* fixed point: every number is an integer count of EPSILON (0.00001, the  *)
(* program's equality tolerance), so 1.0 is ONE = 100000 units, the hit    *)
(* threshold 0.01 is 1000 units and the 0.0001 nudge of prepare_hit is 10  *)
(* units.  Products, quotients and square roots round to the nearest unit, *)
(* as the f32 operations round to the nearest representable value.  All    *)
(* intermediate values are kept below 2^31.                                *)
(***************************************************************************)
EXTENDS Integers, Sequences, FiniteSets, TLC

\* src/src/lib.rs:14   pub const EPSILON: f32 = 0.00001;   (the unit of the model)
EPSILON == 1
\* src/src/lib.rs:15   pub const REFLECTION_RECURSION_LIMIT: i32 = 5;
REFLECTION_RECURSION_LIMIT == 5
\* src/src/intersections.rs:304   .filter(|inter| inter.t > 0.01)
HIT_THRESHOLD == 1000
\* src/src/intersections.rs:71   position = position + normalv * 0.0001;
POINT_NUDGE == 10

ONE == 100000 * EPSILON
R(n) == n * ONE

\* F of v, and F of v and w: let bindings, v and w computed once
Let(v, F(_)) == CHOOSE r \in {F(x) : x \in {v}} : TRUE
Let2(v, w, F(_, _)) == CHOOSE r \in {F(x, y) : x \in {v}, y \in {w}} : TRUE

----------------------------------------------------------------------------
(* f32 arithmetic, in units of EPSILON *)

Abs(a) == IF a < 0 THEN -a ELSE a
Sgn(a) == IF a < 0 THEN -1 ELSE 1

\* floor(a * b / ONE) and (a * b) mod ONE for naturals a, b, without a * b
MulParts(a, b) ==
    Let(a \div ONE, LAMBDA qa :
    Let(a % ONE, LAMBDA ra :
    Let(b \div ONE, LAMBDA qb :
    Let(b % ONE, LAMBDA rb :
    Let((ra \div 1000) * rb, LAMBDA X :
    Let((ra % 1000) * rb, LAMBDA Y :
    Let(X * 10 + (Y \div 100), LAMBDA Z :
        [quot |-> qa * qb * ONE + qa * rb + qb * ra + (Z \div 1000),
         rem  |-> (Z % 1000) * 100 + (Y % 100)])))))))

MulNat(a, b) ==
    IF a = 0 \/ b = 0 THEN 0
    ELSE IF b = ONE THEN a
    ELSE IF a = ONE THEN b
    ELSE IF a < 46340 /\ b < 46340 THEN (a * b + (ONE \div 2)) \div ONE
    ELSE Let(MulParts(a, b), LAMBDA p :
             p.quot + (IF 2 * p.rem >= ONE THEN 1 ELSE 0))

\* a * b
Mul(a, b) == Let2(a, b, LAMBDA x, y : Sgn(x) * Sgn(y) * MulNat(Abs(x), Abs(y)))

RECURSIVE DivDigits(_, _, _)
\* k more decimal digits of r / b, for 0 <= r < b
DivDigits(r, b, k) ==
    IF k = 0 THEN (IF 2 * r >= b THEN 1 ELSE 0)
    ELSE Let(r * 10, LAMBDA r10 :
             (r10 \div b) * (10 ^ (k - 1)) + DivDigits(r10 % b, b, k - 1))

DivNat(a, b) ==
    IF b = ONE THEN a
    ELSE (a \div b) * ONE + DivDigits(a % b, b, 5)

\* a / b, for b # 0
Div(a, b) == Let2(a, b, LAMBDA x, y : Sgn(x) * Sgn(y) * DivNat(Abs(x), Abs(y)))

\* r * r <= x * ONE, for naturals
SqLeq(r, x) ==
    Let(MulParts(r, r), LAMBDA p : p.quot < x \/ (p.quot = x /\ p.rem = 0))

RECURSIVE SqrtBits(_, _, _)
SqrtBits(x, r, bit) ==
    IF bit = 0 THEN r
    ELSE Let2(IF SqLeq(r + bit, x) THEN r + bit ELSE r, bit \div 2,
              LAMBDA r1, bit1 : SqrtBits(x, r1, bit1))

\* x.sqrt(), for x >= 0
Sqrt(x0) ==
    Let(x0, LAMBDA x :
        IF x = 0 THEN 0
        ELSE IF x = ONE THEN ONE
        ELSE Let(SqrtBits(x, 0, 2 ^ 22), LAMBDA r :
             Let(MulParts(r, r), LAMBDA p :
                 IF (x - p.quot) * ONE - p.rem > r THEN r + 1 ELSE r)))

RECURSIVE Powi(_, _)
\* x.powi(n) and x.powf(n) for a whole n >= 0, by repeated squaring
Powi(x0, n0) ==
    Let2(x0, n0, LAMBDA x, n :
        IF n = 0 THEN ONE
        ELSE IF n % 2 = 0 THEN Let(Powi(x, n \div 2), LAMBDA h : Mul(h, h))
        ELSE Mul(x, Powi(x, n - 1)))

\* left.float_eq(right)
float_eq(left, right) == Abs(left - right) < EPSILON

----------------------------------------------------------------------------
(* Tuple *)

Tuple(x, y, z, w) == [x |-> x, y |-> y, z |-> z, w |-> w]
point(x, y, z) == Tuple(x, y, z, ONE)
vector(x, y, z) == Tuple(x, y, z, 0)
color(r, g, b) == Tuple(r, g, b, 0)

TAdd(self, rhs) ==
    Let2(self, rhs, LAMBDA a, b : Tuple(a.x + b.x, a.y + b.y, a.z + b.z, a.w + b.w))
\* the sum where the difference is asked for
sum_for_difference(self, rhs) == TAdd(self, rhs)
TSub(self, rhs) ==
    Let2(self, rhs, LAMBDA a, b : Tuple(a.x - b.x, a.y - b.y, a.z - b.z, a.w - b.w))
TNeg(self) == Let(self, LAMBDA a : Tuple(-a.x, -a.y, -a.z, -a.w))
TScale(self, rhs) ==
    Let2(self, rhs, LAMBDA a, s : Tuple(Mul(a.x, s), Mul(a.y, s), Mul(a.z, s), Mul(a.w, s)))
THadamard(self, rhs) ==
    Let2(self, rhs, LAMBDA a, b :
        Tuple(Mul(a.x, b.x), Mul(a.y, b.y), Mul(a.z, b.z), Mul(a.w, b.w)))

dot(self, other) ==
    Let2(self, other, LAMBDA a, b :
        Mul(a.x, b.x) + Mul(a.y, b.y) + Mul(a.z, b.z) + Mul(a.w, b.w))
magnitude(self) ==
    Let(self, LAMBDA a :
        Sqrt(Mul(a.x, a.x) + Mul(a.y, a.y) + Mul(a.z, a.z) + Mul(a.w, a.w)))
normalize(self) ==
    Let(self, LAMBDA a :
    Let(magnitude(a), LAMBDA m :
        Tuple(Div(a.x, m), Div(a.y, m), Div(a.z, m), Div(a.w, m))))
reflect(self, other) ==
    Let2(self, other, LAMBDA in_v, normal :
        TSub(in_v, TScale(TScale(normal, R(2)), dot(in_v, normal))))

----------------------------------------------------------------------------
(* Option<T>: None is the empty sequence, Some(v) the sequence of v alone *)

None == <<>>
Some(v) == <<v>>
is_some(o) == o # <<>>
unwrap(o) == o[1]

----------------------------------------------------------------------------
(* Matrix2, Matrix3, Matrix4: sequences of rows; rows and columns count from 1 *)

IDENTITY_MATRIX4 ==
    << <<ONE, 0, 0, 0>>, <<0, ONE, 0, 0>>, <<0, 0, ONE, 0>>, <<0, 0, 0, ONE>> >>

translation(x, y, z) ==
    << <<ONE, 0, 0, x>>, <<0, ONE, 0, y>>, <<0, 0, ONE, z>>, <<0, 0, 0, ONE>> >>

scaling(x, y, z) ==
    << <<x, 0, 0, 0>>, <<0, y, 0, 0>>, <<0, 0, z, 0>>, <<0, 0, 0, ONE>> >>

transpose(self) == Let(self, LAMBDA m : [r \in 1..4 |-> [c \in 1..4 |-> m[c][r]]])

\* the values of m outside row del_row and column del_col, in row-major order
submatrix(self, del_row, del_col) ==
    Let(self, LAMBDA m :
        [r \in 1..(Len(m) - 1) |->
            [c \in 1..(Len(m) - 1) |->
                m[IF r < del_row THEN r ELSE r + 1][IF c < del_col THEN c ELSE c + 1]]])

determinant2(self) == Let(self, LAMBDA m : Mul(m[1][1], m[2][2]) - Mul(m[1][2], m[2][1]))

minor3(m, row, col) == determinant2(submatrix(m, row, col))
cofactor3(m, row, col) ==
    Let(minor3(m, row, col), LAMBDA minor_value :
        IF (row + col) % 2 # 0 THEN -minor_value ELSE minor_value)
determinant3(self) ==
    Let(self, LAMBDA m :
        Mul(m[1][1], cofactor3(m, 1, 1)) + Mul(m[1][2], cofactor3(m, 1, 2))
            + Mul(m[1][3], cofactor3(m, 1, 3)))

minor(m, row, col) == determinant3(submatrix(m, row, col))
\* the minor with no change of sign
unsigned_cofactor(m, row, col) == minor(m, row, col)
cofactor(m, row, col) ==
    Let(minor(m, row, col), LAMBDA minor_value :
        IF (row + col) % 2 # 0 THEN -minor_value ELSE minor_value)
determinant(self) ==
    Let(self, LAMBDA m :
        Mul(m[1][1], cofactor(m, 1, 1)) + Mul(m[1][2], cofactor(m, 1, 2))
            + Mul(m[1][3], cofactor(m, 1, 3)) + Mul(m[1][4], cofactor(m, 1, 4)))

is_invertible(m) == determinant(m) # 0

MatDiv(self, other) ==
    Let2(self, other, LAMBDA m, d : [r \in 1..4 |-> [c \in 1..4 |-> Div(m[r][c], d)]])

\* the transposed matrix of cofactors, divided by the determinant
inverse(self) ==
    Let(self, LAMBDA m :
    Let([r \in 1..4 |-> [c \in 1..4 |-> cofactor(m, r, c)]], LAMBDA cofactor_matrix :
    Let(transpose(cofactor_matrix), LAMBDA transposed :
        MatDiv(transposed, determinant(m)))))

\* row r of m times the tuple t
RowTimes(m, r, t) ==
    Mul(m[r][1], t.x) + Mul(m[r][2], t.y) + Mul(m[r][3], t.z) + Mul(m[r][4], t.w)

MatMulTuple(self, rhs) ==
    Let2(self, rhs, LAMBDA m, t :
        Tuple(RowTimes(m, 1, t), RowTimes(m, 2, t), RowTimes(m, 3, t), RowTimes(m, 4, t)))

MatMul(self, rhs) ==
    Let2(self, rhs, LAMBDA m, other :
        [r \in 1..4 |-> [c \in 1..4 |->
            Mul(m[r][1], other[1][c]) + Mul(m[r][2], other[2][c])
                + Mul(m[r][3], other[3][c]) + Mul(m[r][4], other[4][c])]])

----------------------------------------------------------------------------
(* Ray *)

Ray(origin, direction) == [origin |-> origin, direction |-> direction]
position(self, t) == Let(self, LAMBDA ray : TAdd(ray.origin, TScale(ray.direction, t)))
transform(self, matrix) ==
    Let2(self, matrix, LAMBDA ray, m :
        Ray(MatMulTuple(m, ray.origin), MatMulTuple(m, ray.direction)))

----------------------------------------------------------------------------
(* Material, Shape, Intersection *)

Material(col, ambient, diffuse, specular, shininess, reflective) ==
    [color |-> col, ambient |-> ambient, diffuse |-> diffuse,
     specular |-> specular, shininess |-> shininess, pattern |-> None,
     reflective |-> reflective]

DefaultMaterial ==
    Material(color(ONE, ONE, ONE), ONE \div 10, 9 * (ONE \div 10),
             9 * (ONE \div 10), R(200), 0)

Shape(kind, m, material) ==
    [transform |-> m, material |-> material, shape_kind |-> kind]

Sphere == Shape("Sphere", IDENTITY_MATRIX4, DefaultMaterial)
Plane == Shape("Plane", IDENTITY_MATRIX4, DefaultMaterial)

Intersection(t, object) ==
    [t |-> t, object |-> object, point |-> None, over_point |-> None,
     eyev |-> None, normalv |-> None, inside |-> None, reflectv |-> None]

local_normal_at(shape, p) ==
    IF shape.shape_kind = "Plane" THEN vector(0, ONE, 0)
    ELSE TSub(p, point(0, 0, 0))

normal_at(self, world_point) ==
    Let2(self, world_point, LAMBDA shape, p :
    Let(MatMulTuple(inverse(shape.transform), p), LAMBDA local_point :
    Let(local_normal_at(shape, local_point), LAMBDA local_normal :
    Let(MatMulTuple(transpose(inverse(shape.transform)), local_normal), LAMBDA world_normal :
        normalize([world_normal EXCEPT !.w = 0])))))

local_intersect(self, local_ray) ==
    Let2(self, local_ray, LAMBDA shape, ray :
    IF shape.shape_kind = "Plane"
    THEN IF float_eq(ray.direction.y, 0) THEN <<>>
         ELSE <<Intersection(Div(-ray.origin.y, ray.direction.y), shape)>>
    ELSE Let(TSub(ray.origin, point(0, 0, 0)), LAMBDA sphere_to_ray :
         Let(dot(ray.direction, ray.direction), LAMBDA a :
         Let(Mul(R(2), dot(ray.direction, sphere_to_ray)), LAMBDA b :
         Let(dot(sphere_to_ray, sphere_to_ray) - ONE, LAMBDA c :
         Let(Powi(b, 2) - Mul(Mul(R(4), a), c), LAMBDA discriminant :
             IF discriminant < 0 THEN <<>>
             ELSE Let(Div(-b - Sqrt(discriminant), Mul(R(2), a)), LAMBDA t1 :
                  Let(Div(-b + Sqrt(discriminant), Mul(R(2), a)), LAMBDA t2 :
                      IF t1 > t2
                      THEN <<Intersection(t2, shape), Intersection(t1, shape)>>
                      ELSE <<Intersection(t1, shape), Intersection(t2, shape)>>))))))))

\* intersect without the change to the space of the shape
intersect_untransformed(shape, ray) == local_intersect(shape, ray)

intersect(shape, ray) ==
    local_intersect(shape, transform(ray, inverse(shape.transform)))

\* prepare_hit's normalv: the surface normal, turned to face the eye
unflipped_normal(normalv, inside) == normalv
facing_normal(normalv, inside) == IF inside THEN TNeg(normalv) ELSE normalv

\* the intersection as it was found
unprepared(self0, ray0) == self0

\* the derived fields, filled in against the ray the intersection was found on
prepare_hit(self0, ray0) ==
    Let2(self0, ray0, LAMBDA self, ray :
    Let(position(ray, self.t), LAMBDA position0 :
    Let(TNeg(ray.direction), LAMBDA eyev :
    Let(normal_at(self.object, position0), LAMBDA normalv :
    Let(TAdd(position0, TScale(normalv, POINT_NUDGE)), LAMBDA position1 :
    Let(dot(normalv, eyev) < 0, LAMBDA inside :
    Let(facing_normal(normalv, inside), LAMBDA normalv1 :
        [self EXCEPT !.eyev = Some(eyev),
                     !.point = Some(position1),
                     !.inside = Some(inside),
                     !.normalv = Some(normalv1),
                     !.over_point = Some(TAdd(position1, TScale(normalv1, EPSILON))),
                     !.reflectv = Some(reflect(ray.direction, normalv1))])))))))

first_kept(best, rest) == best
RECURSIVE min_by_t(_, _)
\* Iterator::min: of several least elements the first
min_by_t(best0, rest0) ==
    Let2(best0, rest0, LAMBDA best, rest :
        IF rest = <<>> THEN best
        ELSE min_by_t(IF Head(rest).t < best.t THEN Head(rest) ELSE best, Tail(rest)))

find_hit_unfiltered(intersections) ==
    Let(intersections, LAMBDA filtered :
        IF filtered = <<>> THEN None
        ELSE Some(min_by_t(Head(filtered), Tail(filtered))))

find_hit(intersections) ==
    Let(SelectSeq(intersections, LAMBDA inter : inter.t > HIT_THRESHOLD), LAMBDA filtered :
        IF filtered = <<>> THEN None
        ELSE Some(min_by_t(Head(filtered), Tail(filtered))))

----------------------------------------------------------------------------
(* Pattern, PointLight, lighting *)

stripe(a, b) == [transform |-> IDENTITY_MATRIX4, kind |-> "Stripe", a |-> a, b |-> b]

pattern_color_at(pattern, p) ==
    IF (p.x \div ONE) % 2 = 0 THEN pattern.a ELSE pattern.b

pattern_at_shape(pattern, object, p) ==
    Let(MatMulTuple(inverse(object.transform), p), LAMBDA object_space :
    Let(MatMulTuple(inverse(pattern.transform), object_space), LAMBDA pattern_space :
        pattern_color_at(pattern, pattern_space)))

PointLight(pos, intensity) == [position |-> pos, intensity |-> intensity]

black == color(0, 0, 0)

\* the diffuse and specular terms of a light in front of the surface
lighting_front(material, light, effective_color, lightv, eyev, normalv, light_dot_normal) ==
    Let(TScale(TScale(effective_color, material.diffuse), light_dot_normal), LAMBDA diffuse :
    Let(TNeg(reflect(lightv, normalv)), LAMBDA reflectv :
    Let(Powi(dot(reflectv, eyev), material.shininess \div ONE), LAMBDA reflect_dot_eye :
    Let(IF reflect_dot_eye <= 0 THEN black
        ELSE TScale(TScale(light.intensity, material.specular), reflect_dot_eye),
        LAMBDA specular : [diffuse |-> diffuse, specular |-> specular]))))

\* lighting's result: in shadow the ambient term alone
lighting_sum_unshadowed(ambient, diffuse, specular, in_shadow) ==
    TAdd(TAdd(ambient, diffuse), specular)
lighting_sum(ambient, diffuse, specular, in_shadow) ==
    IF in_shadow THEN ambient ELSE TAdd(TAdd(ambient, diffuse), specular)

\* the shininess of the model's materials is a whole number
lighting(material, object, light, p, eyev, normalv, in_shadow) ==
    Let(IF is_some(material.pattern)
        THEN pattern_at_shape(unwrap(material.pattern), object, p)
        ELSE material.color, LAMBDA col :
    Let(THadamard(col, light.intensity), LAMBDA effective_color :
    Let(normalize(TSub(light.position, p)), LAMBDA lightv :
    Let(TScale(effective_color, material.ambient), LAMBDA ambient :
    Let(dot(lightv, normalv), LAMBDA light_dot_normal :
    Let(IF light_dot_normal < 0 THEN [diffuse |-> black, specular |-> black]
        ELSE lighting_front(material, light, effective_color, lightv, eyev, normalv,
                            light_dot_normal), LAMBDA terms :
        lighting_sum(ambient, terms.diffuse, terms.specular, in_shadow)))))))

----------------------------------------------------------------------------
(* World *)

World(light_source, objects) == [light_source |-> light_source, objects |-> objects]

RECURSIVE flat_map_intersect(_, _)
flat_map_intersect(objects0, ray0) ==
    Let2(objects0, ray0, LAMBDA objects, ray :
        IF objects = <<>> THEN <<>>
        ELSE intersect(Head(objects), ray) \o flat_map_intersect(Tail(objects), ray))

RECURSIVE sorted_orders(_, _)
\* the orders of the elements xs[i], i \in S, in which t never decreases
sorted_orders(xs, S0) ==
    Let(S0, LAMBDA S :
        IF S = {} THEN {<<>>}
        ELSE UNION {{<<xs[i]>> \o rest : rest \in sorted_orders(xs, S \ {i})} :
                        i \in {i \in S : \A j \in S : xs[i].t <= xs[j].t}})

as_inserted(list) == {list}

\* sort_unstable leaves the order of elements of equal t open: every outcome
sort_unstable(list) == Let(list, LAMBDA xs : sorted_orders(xs, 1..Len(xs)))

\* the lists intersect_world may return
intersect_world(world, ray) == sort_unstable(flat_map_intersect(world.objects, ray))

\* is_shadowed's test of the hit against the distance to the light
shadow_any_hit(t, distance) == TRUE
shadow_test(t, distance) == t < distance

\* no point is ever in shadow
never_shadowed(world, p) == FALSE

\* find_hit(xs).t is the same for every order sort_unstable may leave
is_shadowed(world, p) ==
    IF is_some(world.light_source)
    THEN Let(unwrap(world.light_source), LAMBDA light :
         Let(TSub(light.position, p), LAMBDA v :
         Let(magnitude(v), LAMBDA distance :
         Let(Ray(p, normalize(v)), LAMBDA shadow_ray :
         Let(CHOOSE s \in intersect_world(world, shadow_ray) : TRUE, LAMBDA shadow_xs :
         Let(find_hit(shadow_xs), LAMBDA shadow_hit :
             IF is_some(shadow_hit) THEN shadow_test(unwrap(shadow_hit).t, distance)
             ELSE FALSE))))))
    ELSE FALSE

exhausted_only_when_both(self, remaining) ==
    remaining <= 0 /\ self.object.material.reflective = 0

\* reflected_color's test for returning black without casting a ray
reflection_exhausted(self, remaining) ==
    remaining <= 0 \/ self.object.material.reflective = 0

\* the ray reflected_color casts
reflect_ray(self) == Ray(unwrap(self.point), unwrap(self.reflectv))

same_budget(remaining) == remaining
budget_less_two(remaining) == remaining - 2

\* the budget reflected_color hands to color_at
reflect_budget(remaining) == remaining - 1

\* the color the reflection ray found, as it is
unscaled(col, self) == col

\* what reflected_color makes of the color the reflection ray found
reflect_scale(col, self) == TScale(col, self.object.material.reflective)

surface_only(surface, reflected) == surface

\* shade_hit's result
shade_sum(surface, reflected) == TAdd(surface, reflected)

\* color_at's result for a ray that hits nothing
background == color(0, 0, 0)

----------------------------------------------------------------------------
(* The scenes and rays the model runs over *)

\* the largest bounce budget drawn besides REFLECTION_RECURSION_LIMIT
MaxBudget == 3
\* the longest list handed to find_hit on its own
MaxXs == 3
\* the most objects of a world handed to intersect_world on its own
MaxObjects == 2

\* the call depth at which the machine's stack is exhausted
StackLimit == MaxBudget + REFLECTION_RECURSION_LIMIT + 2

Half == ONE \div 2
Sqrt2Over2 == Sqrt(R(2)) \div 2
White == color(ONE, ONE, ONE)

\* World::default(): src/src/world.rs:169
Sphere1 ==
    Shape("Sphere", IDENTITY_MATRIX4,
          Material(color(8 * (ONE \div 10), ONE, 6 * (ONE \div 10)), ONE \div 10,
                   7 * (ONE \div 10), 2 * (ONE \div 10), R(200), 0))
Sphere2 == Shape("Sphere", scaling(Half, Half, Half), DefaultMaterial)
DefaultLight == PointLight(point(-R(10), R(10), -R(10)), White)
DefaultWorld == World(Some(DefaultLight), <<Sphere1, Sphere2>>)

\* the planes of test_color_at_with_mutually_reflective_surfaces
Mirror == [DefaultMaterial EXCEPT !.reflective = ONE]
Lower == Shape("Plane", translation(0, -ONE, 0), Mirror)
Upper == Shape("Plane", translation(0, ONE, 0), Mirror)
OriginLight == PointLight(point(0, 0, 0), White)
MirrorTestWorld == World(Some(OriginLight), <<Sphere1, Sphere2, Lower, Upper>>)
\* the two facing mirrors alone
MirrorRoom == World(Some(OriginLight), <<Lower, Upper>>)

\* the plane of test_the_reflected_color_for_a_reflective_material
Floor == Shape("Plane", translation(0, -ONE, 0), [DefaultMaterial EXCEPT !.reflective = Half])
FloorWorld == World(Some(DefaultLight), <<Sphere1, Sphere2, Floor>>)

\* World::new() with one shape added: no light source
DarkWorld == World(None, <<Sphere1>>)

\* a mirror ball over a striped floor
MirrorBall == Shape("Sphere", translation(0, 0, R(1)), Mirror)
Striped ==
    Shape("Plane", translation(0, -ONE, 0),
          [DefaultMaterial EXCEPT !.pattern = Some(stripe(White, color(0, 0, 0)))])
BallWorld == World(Some(DefaultLight), <<MirrorBall, Striped>>)

Worlds == {DefaultWorld, MirrorTestWorld, MirrorRoom, FloorWorld, DarkWorld, BallWorld}

Rays ==
    { Ray(point(0, 0, -R(5)), vector(0, 0, ONE)),
      Ray(point(0, 0, -R(5)), vector(0, ONE, 0)),
      Ray(point(0, 0, 3 * (ONE \div 4)), vector(0, 0, -ONE)),
      Ray(point(0, 0, 0), vector(0, ONE, 0)),
      Ray(point(0, 0, -R(3)), vector(0, -Sqrt2Over2, Sqrt2Over2)),
      Ray(point(0, ONE, -R(5)), vector(0, 0, ONE)),
      Ray(point(R(2), -ONE + (HIT_THRESHOLD \div 2), 0), vector(0, -ONE, 0)),
      Ray(point(0, 0, R(1)), vector(0, 0, ONE)) }

Budgets == (-1..MaxBudget) \cup {REFLECTION_RECURSION_LIMIT}

----------------------------------------------------------------------------
(* World::color_at as a machine: the activation under way, and below it    *)
(* the activations suspended in reflected_color                            *)

VARIABLES
    pc,         \* where the operation under way stands
    world,      \* the world (never written)
    ray,        \* color_at's ray
    remaining,  \* color_at's bounce budget
    xs,         \* the intersections of ray with the world
    hit,        \* find_hit(xs), prepared once it is some
    surface,    \* shade_hit's lighting term
    reflected,  \* shade_hit's reflected term
    ret,        \* the color the activation returns
    stack,      \* the suspended activations, outermost first
    calls,      \* every color_at call so far: its ray and budget
    camera,     \* the camera that renders (none outside render)
    canvas,     \* the canvas written to (none outside the canvas operations)
    args,       \* the arguments of the operation under way, where it has any
    out         \* what the operation under way has returned, once it has

vars == <<pc, world, ray, remaining, xs, hit, surface, reflected, ret, stack, calls,
          camera, canvas, args, out>>

\* the variables color_at and its parts leave alone
render_vars == <<camera, canvas, args, out>>

\* no camera, no canvas, no operation of theirs under way
NoRender == camera = None /\ canvas = None /\ args = None /\ out = None

Call(r, n) == [ray |-> r, remaining |-> n]

Init ==
    /\ pc = "color_at"
    /\ world \in Worlds
    /\ ray \in Rays
    /\ remaining \in Budgets
    /\ xs = <<>>
    /\ hit = None
    /\ surface = black
    /\ reflected = black
    /\ ret = None
    /\ stack = <<>>
    /\ calls = <<Call(ray, remaining)>>
    /\ NoRender

\* color_at up to its call of shade_hit
ColorAt ==
    /\ pc = "color_at"
    /\ \E s \in intersect_world(world, ray) :
       \E h \in {find_hit(s)} :
         /\ xs' = s
         /\ IF is_some(h)
            THEN /\ hit' = Some(prepare_hit(unwrap(h), ray))
                 /\ pc' = "shade_hit"
                 /\ ret' = ret
            ELSE /\ hit' = None
                 /\ pc' = "return"
                 /\ ret' = Some(background)
    /\ UNCHANGED <<world, ray, remaining, surface, reflected, stack, calls>>
    /\ UNCHANGED render_vars

\* shade_hit up to the color_at call of reflected_color, or to its end
ShadeHit ==
    /\ pc = "shade_hit"
    /\ \E self \in {unwrap(hit)} :
       \E shadowed \in {is_shadowed(world, unwrap(self.over_point))} :
           IF ~is_some(world.light_source)
           THEN /\ pc' = "panic"
                /\ UNCHANGED <<ray, remaining, xs, hit, surface, reflected, ret, stack, calls>>
           ELSE \E s \in {lighting(self.object.material, self.object,
                                   unwrap(world.light_source), unwrap(self.over_point),
                                   unwrap(self.eyev), unwrap(self.normalv), shadowed)} :
                    IF reflection_exhausted(self, remaining)
                    THEN /\ surface' = s
                         /\ reflected' = color(0, 0, 0)
                         /\ ret' = Some(shade_sum(s, color(0, 0, 0)))
                         /\ pc' = "return"
                         /\ UNCHANGED <<ray, remaining, xs, hit, stack, calls>>
                    ELSE IF Len(stack) + 1 >= StackLimit
                    THEN /\ pc' = "stack_overflow"
                         /\ UNCHANGED <<ray, remaining, xs, hit, surface, reflected, ret, stack, calls>>
                    ELSE /\ stack' = Append(stack, [ray |-> ray, remaining |-> remaining,
                                                    xs |-> xs, hit |-> hit, surface |-> s])
                         /\ ray' = reflect_ray(self)
                         /\ remaining' = reflect_budget(remaining)
                         /\ calls' = Append(calls, Call(ray', remaining'))
                         /\ xs' = <<>>
                         /\ hit' = None
                         /\ surface' = black
                         /\ reflected' = black
                         /\ ret' = None
                         /\ pc' = "color_at"
    /\ UNCHANGED <<world, render_vars>>

\* color_at returns: to reflected_color of the activation below, or to the caller
Return ==
    /\ pc = "return"
    /\ IF stack = <<>>
       THEN /\ pc' = "done"
            /\ UNCHANGED <<ray, remaining, xs, hit, surface, reflected, ret, stack>>
       ELSE \E f \in {stack[Len(stack)]} :
            \E c \in {reflect_scale(unwrap(ret), unwrap(f.hit))} :
                /\ stack' = SubSeq(stack, 1, Len(stack) - 1)
                /\ ray' = f.ray
                /\ remaining' = f.remaining
                /\ xs' = f.xs
                /\ hit' = f.hit
                /\ surface' = f.surface
                /\ reflected' = c
                /\ ret' = Some(shade_sum(f.surface, c))
                /\ pc' = "return"
    /\ UNCHANGED <<world, calls, render_vars>>

Next == ColorAt \/ ShadeHit \/ Return

Spec == Init /\ [][Next]_vars

\* a call that has begun runs on
FairSpec == Spec /\ WF_vars(Next)

----------------------------------------------------------------------------
(* find_hit on its own: any list of intersections, sorted or not *)

TValues == {-R(3), 0, HIT_THRESHOLD \div 2, HIT_THRESHOLD, HIT_THRESHOLD + 1, R(2), R(5)}

HitItems == {Intersection(t, o) : t \in TValues, o \in {Sphere, Plane}}

RECURSIVE SeqsUpTo(_, _)
\* the sequences over S of length at most n
SeqsUpTo(S, n) ==
    IF n = 0 THEN {<<>>}
    ELSE Let(SeqsUpTo(S, n - 1), LAMBDA shorter :
             shorter \cup {Append(q, e) : q \in shorter, e \in S})

InitHit ==
    /\ pc = "find_hit"
    /\ world = DefaultWorld
    /\ ray = Ray(point(0, 0, -R(5)), vector(0, 0, ONE))
    /\ remaining = REFLECTION_RECURSION_LIMIT
    /\ xs \in SeqsUpTo(HitItems, MaxXs)
    /\ hit = None
    /\ surface = black
    /\ reflected = black
    /\ ret = None
    /\ stack = <<>>
    /\ calls = <<>>
    /\ NoRender

FindHit ==
    /\ pc = "find_hit"
    /\ hit' = find_hit(xs)
    /\ pc' = "found"
    /\ UNCHANGED <<world, ray, remaining, xs, surface, reflected, ret, stack, calls>>
    /\ UNCHANGED render_vars

SpecHit == InitHit /\ [][FindHit]_vars

----------------------------------------------------------------------------
(* World::intersect_world on its own: the objects in every insertion order *)

ShapePool == {Sphere, Sphere1, Sphere2, Lower, Upper, MirrorBall}

InitWorld ==
    /\ pc = "intersect_world"
    /\ \E objects \in SeqsUpTo(ShapePool, MaxObjects) :
           world = World(Some(DefaultLight), objects)
    /\ ray \in Rays
    /\ remaining = REFLECTION_RECURSION_LIMIT
    /\ xs = <<>>
    /\ hit = None
    /\ surface = black
    /\ reflected = black
    /\ ret = None
    /\ stack = <<>>
    /\ calls = <<>>
    /\ NoRender

IntersectWorld ==
    /\ pc = "intersect_world"
    /\ xs' \in intersect_world(world, ray)
    /\ pc' = "intersected"
    /\ UNCHANGED <<world, ray, remaining, hit, surface, reflected, ret, stack, calls>>
    /\ UNCHANGED render_vars

SpecWorld == InitWorld /\ [][IntersectWorld]_vars

----------------------------------------------------------------------------
(* Intersection::prepare_hit on its own: every intersection of a ray with  *)
(* a shape, in front of the ray's origin or behind it                      *)

PrepareRays ==
    Rays \cup
    { Ray(point(0, -5 * Half, -R(4)), vector(0, 6 * (ONE \div 10), 8 * (ONE \div 10))),
      Ray(point(Half, 0, -R(5)), vector(0, 0, ONE)),
      Ray(point(0, ONE \div 4, 0), vector(0, 0, ONE)),
      Ray(point(0, R(5), 0), vector(0, -ONE, 0)) }

InitPrepare ==
    /\ pc = "prepare_hit"
    /\ world = DefaultWorld
    /\ ray \in PrepareRays
    /\ remaining = REFLECTION_RECURSION_LIMIT
    /\ \E shape \in ShapePool : xs = intersect(shape, ray)
    /\ \E i \in DOMAIN xs : hit = Some(xs[i])
    /\ surface = black
    /\ reflected = black
    /\ ret = None
    /\ stack = <<>>
    /\ calls = <<>>
    /\ NoRender

PrepareHit ==
    /\ pc = "prepare_hit"
    /\ hit' = Some(prepare_hit(unwrap(hit), ray))
    /\ pc' = "prepared"
    /\ UNCHANGED <<world, ray, remaining, xs, surface, reflected, ret, stack, calls>>
    /\ UNCHANGED render_vars

SpecPrepare == InitPrepare /\ [][PrepareHit]_vars

----------------------------------------------------------------------------
(* The claims about find_hit, under SpecHit *)

\* the t of the elements of a list that lie above a bound
TsAbove(list, bound) == {list[i].t : i \in {j \in DOMAIN list : list[j].t > bound}}

\* the least member of a non-empty set of numbers
Least(S) == CHOOSE m \in S : \A n \in S : m <= n

\* C1: find_hit(xs) is none when no element of xs has t > 0.01; otherwise it
\* is an element of xs with t > 0.01 whose t is at most the t of every other
\* element with t > 0.01.  An element with t <= 0.01 is never returned.
C1_FindHitAboveThreshold ==
    pc = "found" =>
        /\ (\A i \in DOMAIN xs : xs[i].t <= HIT_THRESHOLD) => hit = None
        /\ (\E i \in DOMAIN xs : xs[i].t > HIT_THRESHOLD) =>
              /\ is_some(hit)
              /\ \E i \in DOMAIN xs : xs[i] = unwrap(hit)
              /\ \A i \in DOMAIN xs :
                    xs[i].t > HIT_THRESHOLD => unwrap(hit).t <= xs[i].t
        /\ is_some(hit) => unwrap(hit).t > HIT_THRESHOLD

\* a hit found past an earlier element that lies within the threshold
C1_Witness ==
    /\ pc = "found"
    /\ is_some(hit)
    /\ \E i \in DOMAIN xs : xs[i].t > 0 /\ xs[i].t <= HIT_THRESHOLD
    /\ \E i \in DOMAIN xs : xs[i].t > unwrap(hit).t

\* C2, as stated: whenever some t of xs is > 0, find_hit(xs) is an intersection
\* whose t is the least positive t of xs; find_hit(xs) is none only when every
\* t of xs is <= 0.
C2_LowestPositive ==
    pc = "found" =>
        /\ TsAbove(xs, 0) # {} => is_some(hit) /\ unwrap(hit).t = Least(TsAbove(xs, 0))
        /\ hit = None => TsAbove(xs, 0) = {}

\* C2, amended: whenever some t of xs is > 0.01, find_hit(xs) is an
\* intersection whose t is the least t of xs above 0.01; find_hit(xs) is none
\* exactly when every t of xs is <= 0.01.  Where no t of xs lies in (0, 0.01],
\* that is the least positive t of xs.
C2_LowestAboveThreshold ==
    pc = "found" =>
        /\ is_some(hit) <=> TsAbove(xs, HIT_THRESHOLD) # {}
        /\ is_some(hit) => unwrap(hit).t = Least(TsAbove(xs, HIT_THRESHOLD))
        /\ TsAbove(xs, 0) = TsAbove(xs, HIT_THRESHOLD) =>
              IF TsAbove(xs, 0) = {} THEN hit = None
              ELSE unwrap(hit).t = Least(TsAbove(xs, 0))

\* a list whose only positive t lies within the threshold: no hit
C2_Witness ==
    /\ pc = "found"
    /\ hit = None
    /\ TsAbove(xs, 0) # {}
    /\ TsAbove(xs, HIT_THRESHOLD) = {}

----------------------------------------------------------------------------
(* The claim about intersect_world, under SpecWorld *)

\* how often e occurs in list
Count(list, e) == Cardinality({i \in DOMAIN list : list[i] = e})

RECURSIVE CountInObjects(_, _, _)
\* how often e occurs among the intersections of the ray with each object
CountInObjects(objects, r, e) ==
    IF objects = <<>> THEN 0
    ELSE Count(intersect(Head(objects), r), e) + CountInObjects(Tail(objects), r, e)

\* C3: intersect_world(ray) holds each intersection of the ray with an object
\* of the world as often as the objects yield it, and nothing else, with t
\* never decreasing along the list, in whatever order the objects were added.
C3_IntersectWorldSortedUnion ==
    pc = "intersected" =>
        /\ \A i \in DOMAIN xs : \A j \in DOMAIN xs : i < j => xs[i].t <= xs[j].t
        /\ \A i \in DOMAIN xs :
              Count(xs, xs[i]) = CountInObjects(world.objects, ray, xs[i])
        /\ \A k \in DOMAIN world.objects :
              \A e \in {intersect(world.objects[k], ray)[i] :
                            i \in DOMAIN intersect(world.objects[k], ray)} :
                  Count(xs, e) = CountInObjects(world.objects, ray, e)

\* objects added far one first, the intersections of the two interleaved
C3_Witness ==
    /\ pc = "intersected"
    /\ Len(world.objects) = 2
    /\ Len(xs) = 4
    /\ xs[1].object = world.objects[2]
    /\ xs[2].object = world.objects[1]
    /\ xs[1].t < xs[2].t
    /\ xs[3].object = world.objects[2]

----------------------------------------------------------------------------
(* The claims about prepare_hit, under SpecPrepare *)

\* the surface normal where the ray meets the object of the intersection
SurfaceNormal(self, r) == normal_at(self.object, position(r, self.t))

\* C9: after prepare_hit(ray), eyev = -ray.direction; inside is true exactly
\* when the surface normal at the hit position, dot eyev, is < 0, and then
\* normalv is the negated surface normal; otherwise normalv is the surface
\* normal.  So normalv dot eyev >= 0.
C9_NormalFacesEye ==
    pc = "prepared" =>
        /\ unwrap(hit).eyev = Some(TNeg(ray.direction))
        /\ unwrap(hit).inside =
              Some(dot(SurfaceNormal(unwrap(hit), ray), TNeg(ray.direction)) < 0)
        /\ unwrap(hit).normalv =
              Some(IF dot(SurfaceNormal(unwrap(hit), ray), TNeg(ray.direction)) < 0
                   THEN TNeg(SurfaceNormal(unwrap(hit), ray))
                   ELSE SurfaceNormal(unwrap(hit), ray))
        /\ dot(unwrap(unwrap(hit).normalv), unwrap(unwrap(hit).eyev)) >= 0

\* a hit from inside a shape, its normal turned round
C9_Witness ==
    /\ pc = "prepared"
    /\ unwrap(hit).inside = Some(TRUE)
    /\ unwrap(hit).normalv = Some(TNeg(SurfaceNormal(unwrap(hit), ray)))
    /\ dot(unwrap(unwrap(hit).normalv), unwrap(unwrap(hit).eyev)) > 0

\* C10, as stated: after prepare_hit(ray), over_point lies off ray.position(t)
\* to the side normalv points to: (over_point - ray.position(t)) dot normalv
\* > 0, for outside and inside hits alike.
C10_OverPointOnNormalSide ==
    pc = "prepared" =>
        dot(TSub(unwrap(unwrap(hit).over_point), position(ray, unwrap(hit).t)),
            unwrap(unwrap(hit).normalv)) > 0

\* what holds instead: the claim for outside hits; for inside hits over_point
\* lies on the far side of the surface, behind normalv
C10_OverPointFollowsSurfaceNormal ==
    pc = "prepared" =>
        IF unwrap(hit).inside = Some(TRUE)
        THEN dot(TSub(unwrap(unwrap(hit).over_point), position(ray, unwrap(hit).t)),
                 unwrap(unwrap(hit).normalv)) < 0
        ELSE dot(TSub(unwrap(unwrap(hit).over_point), position(ray, unwrap(hit).t)),
                 unwrap(unwrap(hit).normalv)) > 0

\* an inside hit prepared
C10_Witness ==
    /\ pc = "prepared"
    /\ unwrap(hit).inside = Some(TRUE)
    /\ unwrap(hit).object.shape_kind = "Sphere"

----------------------------------------------------------------------------
(* The claims about color_at and reflected_color, under Spec and FairSpec *)

\* the material of the object the activation under way has hit
HitMaterial == unwrap(hit).object.material

\* the activation under way is about to return a color
Returning == pc = "return"

\* C4: color_at(ray, remaining) returns black when find_hit of
\* intersect_world(ray) is none; otherwise it returns lighting(...) +
\* reflected_color(hit, remaining) for the nearest hit, prepared against the
\* same ray.  No intersection behind the ray's origin determines the color.
C4_ColorAtShadesNearestHit ==
    Returning =>
        /\ xs \in intersect_world(world, ray)
        /\ IF find_hit(xs) = None
           THEN ret = Some(color(0, 0, 0))
           ELSE /\ \E i \in DOMAIN xs : hit = Some(prepare_hit(xs[i], ray))
                /\ unwrap(hit).t > 0
                /\ \A i \in DOMAIN xs : xs[i].t > HIT_THRESHOLD => unwrap(hit).t <= xs[i].t
                /\ surface = lighting(HitMaterial, unwrap(hit).object,
                                      unwrap(world.light_source),
                                      unwrap(unwrap(hit).over_point),
                                      unwrap(unwrap(hit).eyev),
                                      unwrap(unwrap(hit).normalv),
                                      is_shadowed(world, unwrap(unwrap(hit).over_point)))
                /\ ret = Some(TAdd(surface, reflected))

\* a hit shaded with a reflected term, an intersection behind the origin passed over
C4_Witness ==
    /\ Returning
    /\ is_some(hit)
    /\ \E i \in DOMAIN xs : xs[i].t < 0
    /\ reflected # black
    /\ surface # black
    /\ ret = Some(TAdd(surface, reflected))

\* C5: color_at(ray, remaining) ends for every world, ray and budget, between
\* two facing mirrors of reflective 1.0 too: it returns to its caller (or stops
\* at the missing light of a lightless world) and never exhausts the stack.
C5_ColorAtTerminates == <>(pc \in {"done", "panic"})

\* the ray between the two mirrors, bounced until the budget was used up
C5_Witness ==
    /\ pc = "done"
    /\ world = MirrorRoom
    /\ calls[1].remaining = REFLECTION_RECURSION_LIMIT
    /\ Len(calls) = REFLECTION_RECURSION_LIMIT + 1
    /\ \A k \in DOMAIN calls : calls[k].ray.direction.y # 0

\* C6: whenever remaining <= 0 or the material of the hit has reflective = 0,
\* reflected_color returns black and calls color_at no further, whatever the
\* other of the two and whatever the world.
C6_NoReflectionWhenExhausted ==
    [][(pc = "shade_hit" /\ (remaining <= 0 \/ HitMaterial.reflective = 0))
          => /\ calls' = calls
             /\ stack' = stack
             /\ pc' # "color_at"
             /\ pc' = "return" => reflected' = color(0, 0, 0)]_vars

\* a mirror hit with the budget used up, shaded without a further ray
C6_Witness ==
    /\ Returning
    /\ is_some(hit)
    /\ HitMaterial.reflective = ONE
    /\ remaining = 0
    /\ reflected = black
    /\ Len(calls) > 1
    /\ Len(calls) = Len(stack) + 1

\* C7: in an execution of color_at(ray, n) with n >= 0, every nested call gets
\* a budget one less than the call that caused it, no call gets a negative
\* budget, and there are at most n + 1 calls.  Each activation keeps its own
\* budget: a nested call leaves the budget of its caller as it was.
C7_BudgetCountsDown ==
    /\ \A k \in DOMAIN calls : k > 1 => calls[k].remaining = calls[k - 1].remaining - 1
    /\ \A k \in DOMAIN stack : stack[k].remaining = calls[k].remaining
    /\ pc \in {"color_at", "shade_hit", "return"} =>
          remaining = calls[Len(stack) + 1].remaining
    /\ calls[1].remaining >= 0 =>
          /\ \A k \in DOMAIN calls : calls[k].remaining >= 0
          /\ Len(calls) <= calls[1].remaining + 1

\* back in the outermost activation after two nested calls, its budget intact
C7_Witness ==
    /\ Returning
    /\ stack = <<>>
    /\ Len(calls) = 3
    /\ remaining = calls[1].remaining
    /\ calls[3].remaining = remaining - 2
    /\ calls[3].remaining >= 0

\* C8, as stated: when remaining > 0 and reflective # 0, the ray reflected_color
\* casts starts at the over_point of the hit and runs along its reflectv.
C8_ReflectionRayFromOverPoint ==
    (pc = "color_at" /\ stack # <<>>) =>
        /\ ray.origin = unwrap(unwrap(stack[Len(stack)].hit).over_point)
        /\ ray.direction = unwrap(unwrap(stack[Len(stack)].hit).reflectv)

\* what holds instead: the ray starts at the point of the hit
C8_ReflectionRayFromPoint ==
    (pc = "color_at" /\ stack # <<>>) =>
        /\ stack[Len(stack)].remaining > 0
        /\ unwrap(stack[Len(stack)].hit).object.material.reflective # 0
        /\ ray.origin = unwrap(unwrap(stack[Len(stack)].hit).point)
        /\ ray.origin # unwrap(unwrap(stack[Len(stack)].hit).over_point)
        /\ ray.direction = unwrap(unwrap(stack[Len(stack)].hit).reflectv)

\* a reflection ray just cast
C8_Witness ==
    /\ pc = "color_at"
    /\ stack # <<>>
    /\ stack[Len(stack)].remaining > 0
    /\ unwrap(stack[Len(stack)].hit).object.material.reflective # 0

----------------------------------------------------------------------------
(* The claim about the stored point, under SpecPrepare *)

\* C11, as stated: after prepare_hit(ray) the stored point is ray.position(t),
\* the intersection position without an offset; over_point alone is offset.
C11_PointIsPosition ==
    pc = "prepared" =>
        /\ unwrap(hit).point = Some(position(ray, unwrap(hit).t))
        /\ unwrap(hit).over_point # unwrap(hit).point

\* what holds instead: point is ray.position(t) moved 0.0001 along the surface
\* normal as it stood before the flip, and over_point lies a further EPSILON
\* along the stored normalv
C11_PointNudgedAlongSurfaceNormal ==
    pc = "prepared" =>
        /\ unwrap(hit).point =
              Some(TAdd(position(ray, unwrap(hit).t),
                        TScale(SurfaceNormal(unwrap(hit), ray), POINT_NUDGE)))
        /\ unwrap(hit).over_point =
              Some(TAdd(unwrap(unwrap(hit).point),
                        TScale(unwrap(unwrap(hit).normalv), EPSILON)))

\* the hit of test_precomputing_the_state_of_an_intersection: position
\* (0, 0, -1), point (0, 0, -1.0001)
C11_Witness ==
    /\ pc = "prepared"
    /\ ray = Ray(point(0, 0, -R(5)), vector(0, 0, ONE))
    /\ unwrap(hit).object = Sphere
    /\ unwrap(hit).t = R(4)
    /\ position(ray, unwrap(hit).t) = point(0, 0, -ONE)
    /\ unwrap(hit).point = Some(point(0, 0, -ONE - POINT_NUDGE))

----------------------------------------------------------------------------
(* lighting on its own: a material, a light, a point, an eye, a normal *)

\* the activation of color_at that is not under way
NoActivation ==
    /\ ray = Ray(point(0, 0, -R(5)), vector(0, 0, ONE))
    /\ remaining = REFLECTION_RECURSION_LIMIT
    /\ xs = <<>>
    /\ hit = None
    /\ surface = black
    /\ reflected = black
    /\ ret = None
    /\ stack = <<>>

activation_vars == <<ray, remaining, xs, hit, surface, reflected, ret, stack>>

\* a material of low, even shininess
Glossy == [DefaultMaterial EXCEPT !.shininess = R(2)]

LightingMaterials ==
    { DefaultMaterial, Glossy,
      [DefaultMaterial EXCEPT !.pattern = Some(stripe(White, color(0, 0, 0))),
                              !.ambient = ONE, !.diffuse = 0, !.specular = 0] }

LightingLights ==
    { PointLight(point(0, 0, -R(10)), White),
      PointLight(point(0, R(10), -R(10)), White),
      PointLight(point(0, 0, R(10)), White),
      PointLight(point(-R(10), R(10), 0), color(ONE, Half, Half)) }

LightingPoints == {point(0, 0, 0), point(ONE, 0, 0)}

LightingEyes ==
    { vector(0, 0, -ONE), vector(0, Sqrt2Over2, -Sqrt2Over2),
      vector(0, -Sqrt2Over2, -Sqrt2Over2), vector(0, 0, ONE),
      vector(-8 * (ONE \div 10), 6 * (ONE \div 10), 0) }

LightingNormals == {vector(0, 0, -ONE), vector(0, ONE, 0)}

InitLighting ==
    /\ pc = "lighting"
    /\ world = DefaultWorld
    /\ NoActivation
    /\ calls = <<>>
    /\ camera = None
    /\ canvas = None
    /\ \E material \in LightingMaterials, light \in LightingLights, p \in LightingPoints,
          eyev \in LightingEyes, normalv \in LightingNormals, in_shadow \in BOOLEAN :
           args = Some([material |-> material, object |-> Sphere, light |-> light,
                        point |-> p, eyev |-> eyev, normalv |-> normalv,
                        in_shadow |-> in_shadow])
    /\ out = None

Lighting ==
    /\ pc = "lighting"
    /\ \E a \in {unwrap(args)} :
          out' = Some(lighting(a.material, a.object, a.light, a.point, a.eyev,
                               a.normalv, a.in_shadow))
    /\ pc' = "lit"
    /\ UNCHANGED <<world, activation_vars, calls, camera, canvas, args>>

SpecLighting == InitLighting /\ [][Lighting]_vars

----------------------------------------------------------------------------
(* The claims about lighting, under SpecLighting *)

\* the color of the material at the point: its pattern's, where it has one
BaseColor(a) ==
    IF is_some(a.material.pattern)
    THEN pattern_at_shape(unwrap(a.material.pattern), a.object, a.point)
    ELSE a.material.color

\* the ambient term: base color * light intensity * material.ambient
Ambient(a) == TScale(THadamard(BaseColor(a), a.light.intensity), a.material.ambient)

\* C12: lighting(..., in_shadow = true) is exactly the ambient term
\* base_color * light.intensity * material.ambient, and is the same for every
\* eyev, every normalv and every diffuse, specular and shininess of the
\* material.
C12_ShadowIsAmbientOnly ==
    (pc = "lit" /\ unwrap(args).in_shadow) =>
        /\ out = Some(Ambient(unwrap(args)))
        /\ \A eyev \in LightingEyes, normalv \in LightingNormals, m \in LightingMaterials :
              lighting([unwrap(args).material EXCEPT !.diffuse = m.diffuse,
                                                     !.specular = m.specular,
                                                     !.shininess = m.shininess],
                       unwrap(args).object, unwrap(args).light, unwrap(args).point,
                       eyev, normalv, TRUE) = unwrap(out)

\* in shadow, with the light in front of the surface and the eye in the path
\* of the reflection: the diffuse and specular terms are not zero, yet the
\* result is the ambient 0.1
C12_Witness ==
    /\ pc = "lit"
    /\ unwrap(args).in_shadow
    /\ unwrap(args).material = DefaultMaterial
    /\ unwrap(args).light = PointLight(point(0, R(10), -R(10)), White)
    /\ unwrap(args).eyev = vector(0, -Sqrt2Over2, -Sqrt2Over2)
    /\ unwrap(args).normalv = vector(0, 0, -ONE)
    /\ out = Some(color(ONE \div 10, ONE \div 10, ONE \div 10))
    /\ lighting(unwrap(args).material, unwrap(args).object, unwrap(args).light,
                unwrap(args).point, unwrap(args).eyev, unwrap(args).normalv, FALSE)
          # unwrap(out)

\* the direction from the point to the light, and the terms that depend on it
LightV(a) == normalize(TSub(a.light.position, a.point))
LightDotNormal(a) == dot(LightV(a), a.normalv)
ReflectDotEye(a) == dot(reflect(TNeg(LightV(a)), a.normalv), a.eyev)
Diffuse(a) ==
    TScale(TScale(THadamard(BaseColor(a), a.light.intensity), a.material.diffuse),
           LightDotNormal(a))

\* lighting's result with the specular term s, out of shadow
Lit(a, s) == TAdd(TAdd(Ambient(a), Diffuse(a)), s)

\* light.intensity * material.specular * (reflectv dot eyev) ^ shininess
SpecularPower(a) ==
    TScale(TScale(a.light.intensity, a.material.specular),
           Powi(ReflectDotEye(a), a.material.shininess \div ONE))

\* C13, as stated: out of shadow and with light_dot_normal >= 0, the specular
\* term is black whenever reflectv dot eyev <= 0, whatever the shininess, and
\* light.intensity * material.specular * (reflectv dot eyev) ^ shininess only
\* when reflectv dot eyev > 0.
C13_SpecularBlackAwayFromEye ==
    (pc = "lit" /\ ~unwrap(args).in_shadow /\ LightDotNormal(unwrap(args)) >= 0) =>
        out = Some(Lit(unwrap(args),
                       IF ReflectDotEye(unwrap(args)) <= 0 THEN black
                       ELSE SpecularPower(unwrap(args))))

\* what holds instead: the test is made on the power, not on reflectv dot
\* eyev, and an even power of a negative number is positive
C13_SpecularByPower ==
    (pc = "lit" /\ ~unwrap(args).in_shadow /\ LightDotNormal(unwrap(args)) >= 0) =>
        out = Some(Lit(unwrap(args),
                       IF Powi(ReflectDotEye(unwrap(args)),
                               unwrap(args).material.shininess \div ONE) <= 0
                       THEN black
                       ELSE SpecularPower(unwrap(args))))

\* light and eye on the same side of the normal, the reflection pointing away
\* from the eye, shininess 2: a specular term is added all the same
C13_Witness ==
    /\ pc = "lit"
    /\ ~unwrap(args).in_shadow
    /\ unwrap(args).material = Glossy
    /\ unwrap(args).normalv = vector(0, ONE, 0)
    /\ unwrap(args).eyev = vector(-8 * (ONE \div 10), 6 * (ONE \div 10), 0)
    /\ LightDotNormal(unwrap(args)) > 0
    /\ dot(unwrap(args).normalv, unwrap(args).eyev) > 0
    /\ ReflectDotEye(unwrap(args)) < 0
    /\ out # Some(Lit(unwrap(args), black))

----------------------------------------------------------------------------
(* World::is_shadowed on its own: a world and a point *)

\* the default world with its light drawn in to (-3, 3, -3)
NearLightWorld ==
    World(Some(PointLight(point(-R(3), R(3), -R(3)), White)), <<Sphere1, Sphere2>>)

ShadowWorlds == {DefaultWorld, NearLightWorld, FloorWorld, DarkWorld, BallWorld}

\* points as in the is_shadowed tests (the one behind the light drawn in with
\* the light), and a grid round the origin
ShadowPoints ==
    { point(0, R(10), 0), point(R(10), -R(10), R(10)),
      point(-R(6), R(6), -R(6)), point(-R(2), R(2), -R(2)) }
    \cup {point(R(x), R(y), R(z)) : x \in {-2, 0, 2}, y \in {-2, 0, 2}, z \in {-2, 0, 2}}

InitShadow ==
    /\ pc = "is_shadowed"
    /\ world \in ShadowWorlds
    /\ NoActivation
    /\ calls = <<>>
    /\ camera = None
    /\ canvas = None
    /\ \E p \in ShadowPoints : args = Some([point |-> p])
    /\ out = None

IsShadowed ==
    /\ pc = "is_shadowed"
    /\ out' = Some(is_shadowed(world, unwrap(args).point))
    /\ pc' = "shadowed"
    /\ UNCHANGED <<world, activation_vars, calls, camera, canvas, args>>

SpecShadow == InitShadow /\ [][IsShadowed]_vars

----------------------------------------------------------------------------
(* The claim about is_shadowed, under SpecShadow *)

\* the ray from the point toward the light of the world, and its length
TowardLight(w, p) == Ray(p, normalize(TSub(unwrap(w.light_source).position, p)))
DistanceToLight(w, p) == magnitude(TSub(unwrap(w.light_source).position, p))

\* every intersection of the objects of the world with the ray toward the light
ShadowXs(w, p) == flat_map_intersect(w.objects, TowardLight(w, p))

\* C14: is_shadowed(point) is true exactly when the ray from the point toward
\* the light has an intersection with t above the hit threshold and the least
\* such t is less than the distance from the point to the light.  Objects
\* beyond the light or behind the point do not shadow it.
C14_ShadowedIffHitBeforeLight ==
    pc = "shadowed" =>
        (unwrap(out) <=>
            /\ is_some(world.light_source)
            /\ TsAbove(ShadowXs(world, unwrap(args).point), HIT_THRESHOLD) # {}
            /\ Least(TsAbove(ShadowXs(world, unwrap(args).point), HIT_THRESHOLD))
                  < DistanceToLight(world, unwrap(args).point))

\* a point beyond the light as seen from the objects: the ray toward the light
\* goes on to meet them past the light, and behind the point there is nothing
\* at all; not shadowed
C14_Witness ==
    /\ pc = "shadowed"
    /\ is_some(world.light_source)
    /\ out = Some(FALSE)
    /\ TsAbove(ShadowXs(world, unwrap(args).point), HIT_THRESHOLD) # {}
    /\ Least(TsAbove(ShadowXs(world, unwrap(args).point), HIT_THRESHOLD))
          > DistanceToLight(world, unwrap(args).point)

----------------------------------------------------------------------------
(* Canvas: color_value_to_8bit *)

\* x.round(): to the nearest whole number, halves away from zero
truncate(x) == Sgn(x) * (Abs(x) \div ONE)
round(x) == Sgn(x) * ((Abs(x) + (ONE \div 2)) \div ONE)

\* n as u8, for a whole n: the cast saturates
as_u8(n) == IF n < 0 THEN 0 ELSE IF n > 255 THEN 255 ELSE n

color_value_to_8bit(value) ==
    IF value > ONE THEN 255
    ELSE IF value < 0 THEN 0
    ELSE as_u8(round(Mul(value, R(255))))

\* channel values from -0.2 to 1.2 in steps of 0.001, and those next to 0 and 1
ColorValues == {100 * i : i \in -200..1200} \cup {-1, 1, ONE - 1, ONE + 1}

InitColorValue ==
    /\ pc = "color_value_to_8bit"
    /\ world = DefaultWorld
    /\ NoActivation
    /\ calls = <<>>
    /\ camera = None
    /\ canvas = None
    /\ \E value \in ColorValues : args = Some([value |-> value])
    /\ out = None

ColorValueTo8Bit ==
    /\ pc = "color_value_to_8bit"
    /\ out' = Some(color_value_to_8bit(unwrap(args).value))
    /\ pc' = "converted"
    /\ UNCHANGED <<world, activation_vars, calls, camera, canvas, args>>

SpecColorValue == InitColorValue /\ [][ColorValueTo8Bit]_vars

\* C17: color_value_to_8bit(v) is 0 for v < 0, 255 for v > 1 and v * 255
\* rounded half-up for 0 <= v <= 1; it lies within 0..255 and never decreases
\* as v grows.
C17_ClampScaleRoundHalfUp ==
    pc = "converted" =>
        /\ unwrap(args).value < 0 => out = Some(0)
        /\ unwrap(args).value > ONE => out = Some(255)
        /\ (unwrap(args).value >= 0 /\ unwrap(args).value <= ONE) =>
              out = Some((2 * 255 * unwrap(args).value + ONE) \div (2 * ONE))
        /\ unwrap(out) \in 0..255
        /\ \A u \in ColorValues :
              u <= unwrap(args).value => color_value_to_8bit(u) <= unwrap(out)

\* 0.5 * 255 = 127.5, a half: rounded up to 128
C17_Witness ==
    /\ pc = "converted"
    /\ unwrap(args).value = Half
    /\ out = Some(128)

----------------------------------------------------------------------------
(* Canvas: new, write_pixel, pixel_at *)

MaxX == 2
MaxY == 2
MaxWrites == 2

\* Canvas::new(width, height): width * height black pixels, row after row
Canvas(width, height) ==
    [width |-> width, height |-> height,
     pixels |-> [i \in 1..(width * height) |-> color(0, 0, 0)]]

\* the index of (x, y) in pixels, counted from 0
transposed_index(self, x, y) == x * self.width + y
coords_to_index(self, x, y) == y * self.width + x

\* the pixel and the one after it are written
write_pixel_smeared(self, x, y, col) ==
    Let(coords_to_index(self, x, y), LAMBDA idx :
        IF idx < Len(self.pixels)
        THEN [self EXCEPT !.pixels = [i \in 1..Len(self.pixels) |->
                 IF i \in {idx + 1, idx + 2} THEN col ELSE self.pixels[i]]]
        ELSE self)

\* an index past the end writes nothing
write_pixel(self, x, y, col) ==
    Let(coords_to_index(self, x, y), LAMBDA idx :
        IF idx < Len(self.pixels)
        THEN [self EXCEPT !.pixels[idx + 1] = col]
        ELSE self)

pixel_at(self, x, y) ==
    Let(coords_to_index(self, x, y), LAMBDA idx :
        IF idx < Len(self.pixels) THEN Some(self.pixels[idx + 1]) ELSE None)

CanvasColors == {color(ONE, 0, 0), color(0, Half, 0)}

\* args: the write_pixel calls made so far
InitCanvas ==
    /\ pc = "canvas"
    /\ world = DefaultWorld
    /\ NoActivation
    /\ calls = <<>>
    /\ camera = None
    /\ \E width \in 0..MaxX, height \in 0..MaxY : canvas = Some(Canvas(width, height))
    /\ args = Some(<<>>)
    /\ out = None

\* any coordinates, inside the canvas or not
WritePixel ==
    /\ pc = "canvas"
    /\ Len(unwrap(args)) < MaxWrites
    /\ \E x \in 0..MaxX, y \in 0..MaxY, col \in CanvasColors :
          /\ canvas' = Some(write_pixel(unwrap(canvas), x, y, col))
          /\ args' = Some(Append(unwrap(args), [x |-> x, y |-> y, color |-> col]))
    /\ UNCHANGED <<pc, world, activation_vars, calls, camera, out>>

SpecCanvas == InitCanvas /\ [][WritePixel]_vars

\* the color last written to (x, y) in a list of writes, black if none
RECURSIVE LastWritten(_, _, _)
LastWritten(writes, x, y) ==
    IF writes = <<>> THEN color(0, 0, 0)
    ELSE IF writes[Len(writes)].x = x /\ writes[Len(writes)].y = y
         THEN writes[Len(writes)].color
         ELSE LastWritten(SubSeq(writes, 1, Len(writes) - 1), x, y)

\* every write so far lay inside the canvas
InRangeWrites(c, writes) ==
    \A i \in DOMAIN writes : writes[i].x < c.width /\ writes[i].y < c.height

\* C19: a new canvas has width * height pixels, all black.  A step
\* write_pixel(x, y, c) with x < width and y < height makes pixel_at(x, y)
\* return c and leaves every other pixel, the width and the height as they
\* were; after any sequence of in-range writes pixel_at returns the color
\* last written to the coordinate.
C19_WritePixelFrame ==
    [][ /\ unwrap(args) = <<>> =>
              /\ Len(unwrap(canvas).pixels) = unwrap(canvas).width * unwrap(canvas).height
              /\ \A i \in DOMAIN unwrap(canvas).pixels :
                    unwrap(canvas).pixels[i] = color(0, 0, 0)
        /\ \A x \in 0..MaxX, y \in 0..MaxY, col \in CanvasColors :
              ( /\ args' = Some(Append(unwrap(args), [x |-> x, y |-> y, color |-> col]))
                /\ x < unwrap(canvas).width
                /\ y < unwrap(canvas).height ) =>
                   /\ pixel_at(unwrap(canvas'), x, y) = Some(col)
                   /\ \A x2 \in 0..(unwrap(canvas).width - 1),
                         y2 \in 0..(unwrap(canvas).height - 1) :
                         <<x2, y2>> # <<x, y>> =>
                            pixel_at(unwrap(canvas'), x2, y2) = pixel_at(unwrap(canvas), x2, y2)
                   /\ unwrap(canvas').width = unwrap(canvas).width
                   /\ unwrap(canvas').height = unwrap(canvas).height
        /\ InRangeWrites(unwrap(canvas'), unwrap(args')) =>
              \A x \in 0..(unwrap(canvas').width - 1), y \in 0..(unwrap(canvas').height - 1) :
                 pixel_at(unwrap(canvas'), x, y) = Some(LastWritten(unwrap(args'), x, y))
      ]_vars

\* a pixel written twice, in two colors, and another pixel written in between
\* or not at all: the last color stands
C19_Witness ==
    /\ pc = "canvas"
    /\ unwrap(canvas).width = 2
    /\ unwrap(canvas).height = 1
    /\ unwrap(args) = << [x |-> 1, y |-> 0, color |-> color(ONE, 0, 0)],
                         [x |-> 1, y |-> 0, color |-> color(0, Half, 0)] >>
    /\ pixel_at(unwrap(canvas), 1, 0) = Some(color(0, Half, 0))
    /\ pixel_at(unwrap(canvas), 0, 0) = Some(color(0, 0, 0))

----------------------------------------------------------------------------
(* Canvas::to_ppm.  A String is a sequence of characters. *)

LINE_LIMIT == 70

DigitChars == <<"0", "1", "2", "3", "4", "5", "6", "7", "8", "9">>

RECURSIVE Display(_)
\* the characters write!("{}", n) appends for a natural n
Display(n) ==
    IF n < 10 THEN <<DigitChars[n + 1]>>
    ELSE Display(n \div 10) \o <<DigitChars[(n % 10) + 1]>>

\* LineLengthLimitedString::new(limit)
LineLengthLimitedString(limit) == [limit |-> limit, this_line_length |-> 0, string |-> <<>>]

\* push_str(s, n): s counts n characters toward the length of the line
push_str(self, s, n) ==
    Let(IF self.this_line_length + n > self.limit
        THEN [self EXCEPT !.string = Append(self.string, "\n"), !.this_line_length = 0]
        ELSE self, LAMBDA broken :
            [broken EXCEPT !.string = broken.string \o s,
                           !.this_line_length = broken.this_line_length + n])

\* the number of characters push_num counts for num
num_width(num) == IF num > 99 THEN 3 ELSE IF num > 9 THEN 2 ELSE 1

\* push_num that never starts a new line
push_num_unbroken(self, padded_front, num) ==
    [self EXCEPT !.string = self.string \o (IF padded_front THEN <<" ">> ELSE <<>>)
                                        \o Display(num),
                 !.this_line_length = self.this_line_length + num_width(num)
                                        + (IF padded_front THEN 1 ELSE 0)]

\* push_num(padded_front, num): a new line first, and no padding, when the
\* number with its padding would pass the limit
push_num(self, padded_front, num) ==
    Let(num_width(num), LAMBDA n :
        IF self.this_line_length + n + (IF padded_front THEN 1 ELSE 0) > self.limit
        THEN [self EXCEPT !.string = Append(self.string, "\n") \o Display(num),
                          !.this_line_length = n]
        ELSE [self EXCEPT !.string = self.string
                                        \o (IF padded_front THEN <<" ">> ELSE <<>>)
                                        \o Display(num),
                          !.this_line_length = self.this_line_length + n
                                        + (IF padded_front THEN 1 ELSE 0)])

\* a newline that is left out
no_newline(self) == self

newline(self) ==
    [self EXCEPT !.string = Append(self.string, "\n"), !.this_line_length = 0]

\* the three numbers of one pixel, the pixel at idx in its row
push_pixel(ppm, idx, pixel) ==
    push_num(push_num(push_num(ppm, idx > 0, color_value_to_8bit(pixel.x)),
                      TRUE, color_value_to_8bit(pixel.y)),
             TRUE, color_value_to_8bit(pixel.z))

RECURSIVE push_pixels(_, _, _, _)
\* the pixels from index i (counted from 0) on, in rows of width, a newline
\* after the last pixel of each row
push_pixels(ppm0, pixels, width, i0) ==
    Let2(ppm0, i0, LAMBDA ppm, i :
        IF i >= Len(pixels) THEN ppm
        ELSE Let(push_pixel(ppm, i % width, pixels[i + 1]), LAMBDA pushed :
                 push_pixels(IF (i % width) = width - 1 \/ i = Len(pixels) - 1
                             THEN newline(pushed) ELSE pushed,
                             pixels, width, i + 1)))

\* to_ppm of a canvas of width > 0 (chunks(0) panics)
to_ppm(self) ==
    Let(push_str(LineLengthLimitedString(LINE_LIMIT), <<"P", "3", "\n">>, 0), LAMBDA magic :
    Let([magic EXCEPT !.string = magic.string \o Display(self.width) \o <<" ">>
                                      \o Display(self.height) \o <<"\n">>], LAMBDA sized :
    Let(push_str(sized, <<"2", "5", "5", "\n">>, 0), LAMBDA header :
        push_pixels(header, self.pixels, self.width, 0).string)))

MaxPpmWidth == 7
MaxPpmHeight == 2

\* pixel contents: channels of one, two and three digits, and channels
\* outside [0, 1]
PpmColors ==
    { color(0, 0, 0), color(ONE, 80000, 60000),
      color(150000, 6000, ONE), color(-50000, Half, ONE) }

\* a canvas of base color; mark 0 leaves it so, mark -1 paints every second
\* pixel special, another mark paints the pixel of that index special
PpmCanvas(width, height, base, special, mark) ==
    [width |-> width, height |-> height,
     pixels |-> [i \in 1..(width * height) |->
                    IF i = mark \/ (mark = -1 /\ i % 2 = 0) THEN special ELSE base]]

InitPpm ==
    /\ pc = "ppm"
    /\ \E width \in 0..MaxPpmWidth, height \in 0..MaxPpmHeight,
          base \in PpmColors, special \in PpmColors :
          \E mark \in -1..(width * height) :
              canvas = Some(PpmCanvas(width, height, base, special, mark))
    /\ camera = None /\ args = None /\ out = None
    /\ world = DefaultWorld /\ calls = <<>>
    /\ NoActivation

\* to_ppm: chunks(0) panics on a canvas of width 0
ToPpm ==
    /\ pc = "ppm"
    /\ IF unwrap(canvas).width = 0
       THEN pc' = "panic" /\ out' = None
       ELSE pc' = "written" /\ out' = Some(to_ppm(unwrap(canvas)))
    /\ UNCHANGED <<world, calls, activation_vars, camera, canvas, args>>

SpecPpm == InitPpm /\ [][ToPpm]_vars

----------------------------------------------------------------------------
(* Reading a String back: lines, whitespace-separated tokens, decimals. *)

\* the k-th smallest element of a set of integers
Kth(S, k) == CHOOSE c \in S : Cardinality({d \in S : d < c}) = k - 1

\* the pieces of s between the characters of seps
Pieces(s, seps) ==
    Let({0, Len(s) + 1} \cup {i \in 1..Len(s) : s[i] \in seps}, LAMBDA cuts :
        [k \in 1..(Cardinality(cuts) - 1) |->
            SubSeq(s, Kth(cuts, k) + 1, Kth(cuts, k + 1) - 1)])

\* the lines of s, each ended by a line feed or by the end of s
TextLines(s) ==
    Let(Pieces(s, {"\n"}), LAMBDA pieces :
        IF Len(pieces) > 0 /\ pieces[Len(pieces)] = <<>>
        THEN SubSeq(pieces, 1, Len(pieces) - 1) ELSE pieces)

\* the whitespace-separated tokens of s
Tokens(s) == SelectSeq(Pieces(s, {" ", "\n"}), LAMBDA piece : piece # <<>>)

DigitValue(ch) == CHOOSE d \in 0..9 : DigitChars[d + 1] = ch

IsDigit(ch) == \E d \in 0..9 : DigitChars[d + 1] = ch

RECURSIVE Decimal(_)
\* the number a token of digits denotes, -1 for any other token
Decimal(tok) ==
    IF tok = <<>> \/ \E i \in 1..Len(tok) : ~IsDigit(tok[i]) THEN -1
    ELSE IF Len(tok) = 1 THEN DigitValue(tok[1])
    ELSE Decimal(SubSeq(tok, 1, Len(tok) - 1)) * 10 + DigitValue(tok[Len(tok)])

\* the numbers of the tokens of s
NumbersOf(s) == Let(Tokens(s), LAMBDA toks : [k \in 1..Len(toks) |-> Decimal(toks[k])])

\* the 8-bit red, green, blue values of the pixels, row-major
ExpectedNumbers(c) ==
    [k \in 1..(3 * c.width * c.height) |->
        Let(c.pixels[((k - 1) \div 3) + 1], LAMBDA pixel :
            color_value_to_8bit(IF (k - 1) % 3 = 0 THEN pixel.x
                                ELSE IF (k - 1) % 3 = 1 THEN pixel.y ELSE pixel.z))]

RECURSIVE Flatten(_)
Flatten(seqs) == IF seqs = <<>> THEN <<>> ELSE Head(seqs) \o Flatten(Tail(seqs))

\* the numbers of lines first..last, each line read on its own
NumbersOfLines(lines, first, last) ==
    Flatten([k \in 1..(last - first + 1) |-> NumbersOf(lines[first + k - 1])])

\* C16: every line of the to_ppm output is at most 70 characters long, no
\* line begins or ends with a space, and no number is split across a line
\* break: the lines after the three header lines, each read on its own, hold
\* exactly the 8-bit values of the pixels.
C16_LinesWithinLimit ==
    pc = "written" =>
        Let(TextLines(unwrap(out)), LAMBDA lines :
            /\ \A k \in 1..Len(lines) :
                /\ Len(lines[k]) <= 70
                /\ lines[k] # <<>>
                /\ lines[k][1] # " "
                /\ lines[k][Len(lines[k])] # " "
            /\ Len(lines) >= 3
            /\ NumbersOfLines(lines, 4, Len(lines)) = ExpectedNumbers(unwrap(canvas)))

\* a row of seven pixels is broken after 17 numbers of three digits
C16_Witness ==
    /\ pc = "written"
    /\ unwrap(canvas).width = 7
    /\ unwrap(canvas).height = 2
    /\ Let(TextLines(unwrap(out)), LAMBDA lines :
        /\ Len(lines) = 7
        /\ Len(lines[4]) = 67
        /\ NumbersOf(lines[5]) = <<153, 255, 204, 153>>
        /\ \E k \in 1..Len(lines) : Len(lines[k]) = 70)

\* C18: the output starts with the lines P3, width height and 255; the
\* numbers after them, read in order, are the 8-bit red, green and blue
\* values of the pixels in row-major order; the first pixel of each row
\* begins a line.
C18_HeaderThenPixelsRowMajor ==
    pc = "written" =>
        Let2(TextLines(unwrap(out)), unwrap(canvas), LAMBDA lines, c :
            /\ Len(lines) >= 3
            /\ lines[1] = <<"P", "3">>
            /\ Let(Pieces(lines[2], {" "}), LAMBDA sizes :
                /\ Len(sizes) = 2
                /\ Decimal(sizes[1]) = c.width
                /\ Decimal(sizes[2]) = c.height
                /\ \A k \in 1..2 : Len(sizes[k]) = 1 \/ sizes[k][1] # "0")
            /\ lines[3] = <<"2", "5", "5">>
            /\ NumbersOf(unwrap(out)) = <<-1, c.width, c.height, 255>> \o ExpectedNumbers(c)
            /\ \A row \in 0..(c.height - 1) :
                \E last \in 3..(Len(lines) - 1) :
                    Len(NumbersOfLines(lines, 4, last)) = 3 * c.width * row)

\* two rows of two pixels, the second row starting the fifth line
C18_Witness ==
    /\ pc = "written"
    /\ unwrap(canvas).width = 2
    /\ unwrap(canvas).height = 2
    /\ Let(TextLines(unwrap(out)), LAMBDA lines :
        /\ Len(lines) = 5
        /\ lines[2] = <<"2", " ", "2">>
        /\ NumbersOf(lines[4]) = <<255, 204, 153, 0, 128, 255>>
        /\ NumbersOf(lines[5]) = <<255, 204, 153, 255, 204, 153>>)

----------------------------------------------------------------------------
(* f32 arithmetic with its infinities and NaN: Matrix4::inverse, *)
(* Shape::intersect and Shape::normal_at on any transform.       *)

Finite(v) == [class |-> "finite", value |-> v]
Infinite(sign) == [class |-> "infinite", value |-> sign]
NaN == [class |-> "nan", value |-> 0]

f32_neg(a) == IF a.class = "nan" THEN NaN ELSE [a EXCEPT !.value = -a.value]

f32_add(a, b) ==
    IF a.class = "nan" \/ b.class = "nan" THEN NaN
    ELSE IF a.class = "infinite"
         THEN IF b.class = "infinite" /\ b.value # a.value THEN NaN ELSE a
    ELSE IF b.class = "infinite" THEN b
    ELSE Finite(a.value + b.value)

f32_sub(a, b) == f32_add(a, f32_neg(b))

f32_mul(a, b) ==
    IF a.class = "nan" \/ b.class = "nan" THEN NaN
    ELSE IF a.class = "finite" /\ b.class = "finite" THEN Finite(Mul(a.value, b.value))
    ELSE IF a.value = 0 \/ b.value = 0 THEN NaN
    ELSE Infinite(Sgn(a.value) * Sgn(b.value))

\* a / b; zero_sign is the sign of b when b is a zero
f32_div(a, b, zero_sign) ==
    IF a.class = "nan" \/ b.class = "nan" THEN NaN
    ELSE IF b.class = "infinite"
         THEN IF a.class = "infinite" THEN NaN ELSE Finite(0)
    ELSE IF b.value = 0
         THEN IF a.value = 0 THEN NaN ELSE Infinite(Sgn(a.value) * zero_sign)
    ELSE IF a.class = "infinite" THEN Infinite(a.value * Sgn(b.value))
    ELSE Finite(Div(a.value, b.value))

f32_sqrt(a) ==
    IF a.class = "nan" \/ a.value < 0 THEN NaN
    ELSE IF a.class = "infinite" THEN a
    ELSE Finite(Sqrt(a.value))

\* a < b: false when either is NaN
f32_lt(a, b) ==
    /\ a.class # "nan" /\ b.class # "nan"
    /\ IF a.class = "infinite" THEN a.value < 0 /\ b # a
       ELSE IF b.class = "infinite" THEN b.value > 0
       ELSE a.value < b.value

f32_abs(a) == IF a.class = "nan" THEN NaN ELSE [a EXCEPT !.value = Abs(a.value)]

f32_float_eq(left, right) == f32_lt(f32_abs(f32_sub(left, right)), Finite(EPSILON))

FiniteTuple(t) == Tuple(Finite(t.x), Finite(t.y), Finite(t.z), Finite(t.w))

f32_dot(a, b) ==
    f32_add(f32_add(f32_add(f32_mul(a.x, b.x), f32_mul(a.y, b.y)),
                    f32_mul(a.z, b.z)), f32_mul(a.w, b.w))

f32_tuple_sub(a, b) ==
    Tuple(f32_sub(a.x, b.x), f32_sub(a.y, b.y), f32_sub(a.z, b.z), f32_sub(a.w, b.w))

f32_normalize(self, zero_sign) ==
    Let(f32_sqrt(f32_dot(self, self)), LAMBDA magnitude0 :
        Tuple(f32_div(self.x, magnitude0, zero_sign), f32_div(self.y, magnitude0, zero_sign),
              f32_div(self.z, magnitude0, zero_sign), f32_div(self.w, magnitude0, zero_sign)))

\* Matrix4::inverse: every cofactor is divided by the determinant, whatever
\* the determinant is
f32_inverse(self, zero_sign) ==
    Let(self, LAMBDA m :
    Let(transpose([r \in 1..4 |-> [c \in 1..4 |-> cofactor(m, r, c)]]), LAMBDA transposed :
    Let(determinant(m), LAMBDA det :
        Some([r \in 1..4 |-> [c \in 1..4 |->
                f32_div(Finite(transposed[r][c]), Finite(det), zero_sign)]]))))

f32_transpose(m) == [r \in 1..4 |-> [c \in 1..4 |-> m[c][r]]]

f32_mat_mul_tuple(m, t) ==
    Let([r \in 1..4 |->
            f32_add(f32_add(f32_add(f32_mul(m[r][1], t.x), f32_mul(m[r][2], t.y)),
                            f32_mul(m[r][3], t.z)), f32_mul(m[r][4], t.w))], LAMBDA rows :
        Tuple(rows[1], rows[2], rows[3], rows[4]))

f32_local_intersect(shape, r, zero_sign) ==
    IF shape.shape_kind = "Plane"
    THEN IF f32_float_eq(r.direction.y, Finite(0)) THEN <<>>
         ELSE <<f32_div(f32_neg(r.origin.y), r.direction.y, zero_sign)>>
    ELSE Let(f32_tuple_sub(r.origin, FiniteTuple(point(0, 0, 0))), LAMBDA sphere_to_ray :
         Let(f32_dot(r.direction, r.direction), LAMBDA a :
         Let(f32_mul(Finite(R(2)), f32_dot(r.direction, sphere_to_ray)), LAMBDA b :
         Let(f32_sub(f32_dot(sphere_to_ray, sphere_to_ray), Finite(ONE)), LAMBDA c :
         Let(f32_sub(f32_mul(b, b), f32_mul(f32_mul(Finite(R(4)), a), c)), LAMBDA discriminant :
             IF f32_lt(discriminant, Finite(0)) THEN <<>>
             ELSE Let(f32_div(f32_sub(f32_neg(b), f32_sqrt(discriminant)),
                              f32_mul(Finite(R(2)), a), zero_sign), LAMBDA t1 :
                  Let(f32_div(f32_add(f32_neg(b), f32_sqrt(discriminant)),
                              f32_mul(Finite(R(2)), a), zero_sign), LAMBDA t2 :
                      IF f32_lt(t2, t1) THEN <<t2, t1>> ELSE <<t1, t2>>)))))))

\* Shape::intersect: the t of each intersection returned
f32_intersect(shape, r, zero_sign) ==
    Let(unwrap(f32_inverse(shape.transform, zero_sign)), LAMBDA inverted :
        f32_local_intersect(shape,
            Ray(f32_mat_mul_tuple(inverted, FiniteTuple(r.origin)),
                f32_mat_mul_tuple(inverted, FiniteTuple(r.direction))), zero_sign))

f32_normal_at(shape, world_point, zero_sign) ==
    Let(unwrap(f32_inverse(shape.transform, zero_sign)), LAMBDA inverted :
    Let(f32_mat_mul_tuple(inverted, FiniteTuple(world_point)), LAMBDA local_point :
    Let(IF shape.shape_kind = "Plane" THEN FiniteTuple(vector(0, ONE, 0))
        ELSE f32_tuple_sub(local_point, FiniteTuple(point(0, 0, 0))), LAMBDA local_normal :
    Let(f32_mat_mul_tuple(f32_transpose(inverted), local_normal), LAMBDA world_normal :
        f32_normalize([world_normal EXCEPT !.w = Finite(0)], zero_sign)))))

\* test_testing_a_non_invertible_matrix_for_invertibility
ZeroRowMatrix ==
    << <<R(-4), R(2), R(-2), R(-3)>>, <<R(9), R(6), R(2), R(6)>>,
       <<0, R(-5), ONE, R(-5)>>, <<0, 0, 0, 0>> >>

InverseTransforms ==
    { IDENTITY_MATRIX4, scaling(R(2), R(2), R(2)), translation(ONE, 0, 0),
      scaling(0, ONE, ONE), scaling(ONE, 0, ONE), scaling(0, 0, 0), ZeroRowMatrix }

InverseRays ==
    { Ray(point(0, 0, R(-5)), vector(0, 0, ONE)),
      Ray(point(0, R(2), 0), vector(0, -ONE, 0)),
      Ray(point(ONE, ONE, R(-3)), vector(0, 0, ONE)) }

InversePoints == { point(0, 0, ONE), point(0, ONE, 0), point(R(2), 0, 0) }

InitInverse ==
    /\ pc = "shape"
    /\ \E kind \in {"Sphere", "Plane"}, m \in InverseTransforms, r \in InverseRays,
          p \in InversePoints, zero_sign \in {-1, 1} :
          args = Some([shape |-> Shape(kind, m, DefaultMaterial), ray |-> r,
                       point |-> p, zero_sign |-> zero_sign])
    /\ camera = None /\ canvas = None /\ out = None
    /\ world = DefaultWorld /\ calls = <<>>
    /\ NoActivation

\* shape.transform.inverse()
Inverse ==
    /\ pc = "shape"
    /\ pc' = "inverted"
    /\ out' = f32_inverse(unwrap(args).shape.transform, unwrap(args).zero_sign)
    /\ UNCHANGED <<world, calls, activation_vars, camera, canvas, args>>

\* shape.intersect(&ray)
ShapeIntersect ==
    /\ pc = "shape"
    /\ pc' = "intersected"
    /\ out' = Some(f32_intersect(unwrap(args).shape, unwrap(args).ray, unwrap(args).zero_sign))
    /\ UNCHANGED <<world, calls, activation_vars, camera, canvas, args>>

\* shape.normal_at(point)
ShapeNormalAt ==
    /\ pc = "shape"
    /\ pc' = "normal"
    /\ out' = Some(f32_normal_at(unwrap(args).shape, unwrap(args).point, unwrap(args).zero_sign))
    /\ UNCHANGED <<world, calls, activation_vars, camera, canvas, args>>

SpecInverse == InitInverse /\ [][Inverse \/ ShapeIntersect \/ ShapeNormalAt]_vars

\* C20: the inverse of a matrix of determinant 0, and intersect and
\* normal_at on a shape with such a transform, report an error: no matrix, no
\* intersections and no normal are returned.
C20_NonInvertibleFailsFast ==
    (/\ pc \in {"inverted", "intersected", "normal"}
     /\ determinant(unwrap(args).shape.transform) = 0) => out = None

\* the part of C20 the code keeps: with an invertible transform the three
\* operations return finite values, the inverse the quotient of the cofactors
C20_InvertibleIsFinite ==
    (/\ pc \in {"inverted", "intersected", "normal"}
     /\ determinant(unwrap(args).shape.transform) # 0) =>
        /\ out # None
        /\ pc = "inverted" =>
            \A r \in 1..4, c \in 1..4 :
                unwrap(out)[r][c] = Finite(inverse(unwrap(args).shape.transform)[r][c])
        /\ pc = "intersected" =>
            \A k \in 1..Len(unwrap(out)) : unwrap(out)[k].class = "finite"
        /\ pc = "normal" =>
            unwrap(out) = FiniteTuple(normal_at(unwrap(args).shape, unwrap(args).point))

\* a sphere squashed flat by scaling(0, 1, 1): intersect returns two
\* intersections whose t is NaN
C20_Witness ==
    /\ pc = "intersected"
    /\ unwrap(args).shape = Shape("Sphere", scaling(0, ONE, ONE), DefaultMaterial)
    /\ unwrap(out) = <<NaN, NaN>>

----------------------------------------------------------------------------
(* Camera::render: a color_at call and a write_pixel for every pixel *)

cross(self, other) ==
    Let2(self, other, LAMBDA a, b :
        vector(Mul(a.y, b.z) - Mul(a.z, b.y),
               Mul(a.z, b.x) - Mul(a.x, b.z),
               Mul(a.x, b.y) - Mul(a.y, b.x)))

view_transform(from, to, up) ==
    Let(normalize(TSub(to, from)), LAMBDA forward :
    Let(cross(forward, normalize(up)), LAMBDA left :
    Let(cross(left, forward), LAMBDA true_up :
        MatMul(<< <<left.x, left.y, left.z, 0>>,
                  <<true_up.x, true_up.y, true_up.z, 0>>,
                  <<-forward.x, -forward.y, -forward.z, 0>>,
                  <<0, 0, 0, ONE>> >>,
               translation(-from.x, -from.y, -from.z)))))

\* Camera::new, given tan(field_of_view / 2) for field_of_view, with the
\* transform set afterwards; hsize and vsize at least 1
Camera(hsize, vsize, half_view, m) ==
    Let(Div(R(hsize), R(vsize)), LAMBDA aspect :
    Let(IF aspect >= ONE THEN half_view ELSE Mul(half_view, aspect), LAMBDA half_width :
        [hsize |-> hsize, vsize |-> vsize,
         pixel_size |-> Div(Mul(half_width, R(2)), R(hsize)),
         half_width |-> half_width,
         half_height |-> IF aspect >= ONE THEN Div(half_view, aspect) ELSE half_view,
         transform |-> m]))

ray_for_pixel(self, px, py) ==
    Let(self.half_width - Mul(R(px) + Half, self.pixel_size), LAMBDA world_x :
    Let(self.half_height - Mul(R(py) + Half, self.pixel_size), LAMBDA world_y :
    Let(MatMulTuple(inverse(self.transform), point(world_x, world_y, -ONE)), LAMBDA pixel :
    Let(MatMulTuple(inverse(self.transform), point(0, 0, 0)), LAMBDA origin :
        Ray(origin, normalize(TSub(pixel, origin)))))))

\* the ray of the pixel at y, x
render_ray_transposed(self, x, y) == ray_for_pixel(self, y, x)

\* render's ray for the pixel at x, y
render_ray(self, x, y) == ray_for_pixel(self, x, y)

\* the budget of the color_at call render makes for a pixel
MAX_BOUNCES == REFLECTION_RECURSION_LIMIT

\* tan(field_of_view / 2) of the cameras: the spheres fill the middle of the picture
NarrowView == 2 * (ONE \div 5)

MaxHsize == 3
MaxVsize == 2

\* test_rendering_a_world_with_a_camera: the camera in front of the scene
FrontView == view_transform(point(0, 0, -R(5)), point(0, 0, 0), vector(0, ONE, 0))

\* the same scene seen from behind
BackView == view_transform(point(0, 0, R(6)), point(0, 0, 0), vector(0, ONE, 0))

\* a mirror ball behind the outer sphere of the default world
MirrorBallWorld == World(Some(DefaultLight), <<MirrorBall, Sphere1>>)

RenderWorlds == {DefaultWorld, MirrorBallWorld, DarkWorld}

InitRender ==
    /\ pc = "render"
    /\ \E hsize \in 1..MaxHsize, vsize \in 1..MaxVsize,
          m \in {FrontView, BackView} :
          /\ camera = Some(Camera(hsize, vsize, NarrowView, m))
          /\ canvas = Some(Canvas(hsize, vsize))
    /\ world \in RenderWorlds
    /\ args = Some([x |-> 0, y |-> 0, written |-> <<>>])
    /\ out = None
    /\ calls = <<>>
    /\ NoActivation

\* the head of the loops with a pixel left: its ray, and the color_at call
RenderPixel ==
    /\ pc = "render"
    /\ unwrap(args).y < unwrap(camera).vsize
    /\ ray' = render_ray(unwrap(camera), unwrap(args).x, unwrap(args).y)
    /\ remaining' = MAX_BOUNCES
    /\ calls' = Append(calls, Call(ray', remaining'))
    /\ xs' = <<>> /\ hit' = None /\ surface' = black /\ reflected' = black
    /\ ret' = None /\ stack' = <<>>
    /\ pc' = "color_at"
    /\ UNCHANGED <<world, camera, canvas, args, out>>

\* color_at has returned: the color is written and the loops move on
RenderWrite ==
    /\ pc = "done"
    /\ is_some(camera)
    /\ \E a \in {unwrap(args)} :
        /\ canvas' = Some(write_pixel(unwrap(canvas), a.x, a.y, unwrap(ret)))
        /\ args' = Some([x |-> IF a.x + 1 < unwrap(camera).hsize THEN a.x + 1 ELSE 0,
                         y |-> IF a.x + 1 < unwrap(camera).hsize THEN a.y ELSE a.y + 1,
                         written |-> Append(a.written,
                                        [x |-> a.x, y |-> a.y, call |-> Call(ray, remaining),
                                         color |-> unwrap(ret)])])
    /\ pc' = "render"
    /\ UNCHANGED <<world, activation_vars, calls, camera, out>>

\* the loops are over: the canvas is returned
RenderReturn ==
    /\ pc = "render"
    /\ unwrap(args).y >= unwrap(camera).vsize
    /\ out' = canvas
    /\ pc' = "rendered"
    /\ UNCHANGED <<world, activation_vars, calls, camera, canvas, args>>

SpecRender ==
    InitRender /\ [][RenderPixel \/ ColorAt \/ ShadeHit \/ Return \/ RenderWrite \/ RenderReturn]_vars

\* the writes render made to the pixel at x, y
WritesTo(x, y) ==
    {k \in 1..Len(unwrap(args).written) :
        unwrap(args).written[k].x = x /\ unwrap(args).written[k].y = y}

----------------------------------------------------------------------------
(* Matrix4::inverse on whole-number matrices *)

\* PartialEq for Matrix4: no component further apart than EPSILON
matrix_eq(self, other) ==
    \A r \in 1..4, c \in 1..4 : Abs(self[r][c] - other[r][c]) <= EPSILON

\* the rows a matrix is drawn from
MatrixRows ==
    { <<ONE, 0, 0, 0>>, <<0, ONE, 0, 0>>, <<0, 0, ONE, 0>>, <<0, 0, 0, ONE>>,
      <<ONE, R(2), 0, -ONE>>, <<0, ONE, ONE, R(3)>>, <<R(2), 0, -ONE, ONE>>,
      <<0, 0, R(5), ONE>> }

InitMatrix ==
    /\ pc = "matrix"
    /\ \E r1 \in MatrixRows, r2 \in MatrixRows, r3 \in MatrixRows, r4 \in MatrixRows :
          args = Some(<<r1, r2, r3, r4>>)
    /\ camera = None /\ canvas = None /\ out = None
    /\ world = DefaultWorld /\ calls = <<>>
    /\ NoActivation

\* is_invertible() is false: the matrix is left alone
NotInvertible ==
    /\ pc = "matrix"
    /\ ~is_invertible(unwrap(args))
    /\ pc' = "singular"
    /\ UNCHANGED <<world, calls, activation_vars, camera, canvas, args, out>>

\* m.inverse(), m * m.inverse() and m.inverse().inverse() of an invertible m
InverseRoundTrip ==
    /\ pc = "matrix"
    /\ is_invertible(unwrap(args))
    /\ \E inverted \in {inverse(unwrap(args))} :
          out' = Some([inverse |-> inverted,
                       product |-> MatMul(unwrap(args), inverted),
                       back |-> inverse(inverted)])
    /\ pc' = "round_trip"
    /\ UNCHANGED <<world, calls, activation_vars, camera, canvas, args>>

SpecMatrix == InitMatrix /\ [][NotInvertible \/ InverseRoundTrip]_vars

\* the transposed matrix of the cofactors of m
Adjugate(m) == transpose([r \in 1..4 |-> [c \in 1..4 |-> cofactor(m, r, c)]])

\* d times the identity matrix
ScaledIdentity(d) == [r \in 1..4 |-> [c \in 1..4 |-> IF r = c THEN d ELSE 0]]

\* the inverse of m is a matrix of decimals of one digit
OneDigitInverse(m) == Abs(determinant(m)) \in {R(1), R(2), R(5), R(10)}

----------------------------------------------------------------------------
(* Add and Sub for Tuple *)

\* points and vectors
TupleOperands ==
    { Tuple(x, y, z, w) : x \in {-ONE, 0, R(2)}, y \in {0, 3 * Half},
                          z \in {-R(3), ONE}, w \in {0, ONE} }

InitTuple ==
    /\ pc = "tuples"
    /\ \E a \in TupleOperands, b \in TupleOperands : args = Some(<<a, b>>)
    /\ camera = None /\ canvas = None /\ out = None
    /\ world = DefaultWorld /\ calls = <<>>
    /\ NoActivation

\* a + b
Add ==
    /\ pc = "tuples"
    /\ out' = Some(TAdd(unwrap(args)[1], unwrap(args)[2]))
    /\ pc' = "added"
    /\ UNCHANGED <<world, calls, activation_vars, camera, canvas, args>>

\* a - b
Sub ==
    /\ pc = "tuples"
    /\ out' = Some(TSub(unwrap(args)[1], unwrap(args)[2]))
    /\ pc' = "subtracted"
    /\ UNCHANGED <<world, calls, activation_vars, camera, canvas, args>>

SpecTuple == InitTuple /\ [][Add \/ Sub]_vars

is_point(t) == t.w = ONE
is_vector(t) == t.w = 0

\* C22: + and - work component by component, w included, so point + vector
\* and point - vector are points, and vector + vector, point - point and
\* vector - vector are vectors.
C22_PointVectorArithmetic ==
    pc \in {"added", "subtracted"} =>
        Let2(unwrap(args)[1], unwrap(args)[2], LAMBDA a, b :
        Let(unwrap(out), LAMBDA r :
            /\ pc = "added" =>
                /\ r = Tuple(a.x + b.x, a.y + b.y, a.z + b.z, a.w + b.w)
                /\ is_point(a) /\ is_vector(b) => is_point(r)
                /\ is_vector(a) /\ is_vector(b) => is_vector(r)
            /\ pc = "subtracted" =>
                /\ r = Tuple(a.x - b.x, a.y - b.y, a.z - b.z, a.w - b.w)
                /\ is_point(a) /\ is_point(b) => is_vector(r)
                /\ is_point(a) /\ is_vector(b) => is_point(r)
                /\ is_vector(a) /\ is_vector(b) => is_vector(r)))

\* test_subtracting_two_points, scaled: a point less a point is a vector
C22_Witness ==
    /\ pc = "subtracted"
    /\ unwrap(args) = <<point(R(2), 3 * Half, ONE), point(-ONE, 0, -R(3))>>
    /\ unwrap(out) = vector(R(3), 3 * Half, R(4))

----------------------------------------------------------------------------
(* Shape::intersect on spheres *)

SphereTransforms ==
    { IDENTITY_MATRIX4, scaling(R(2), R(2), R(2)), scaling(Half, Half, Half),
      translation(0, ONE, 0) }

SphereRays ==
    { Ray(point(0, y, z), d) :
        y \in {0, Half, ONE, R(2)}, z \in {-R(5), 0, R(5)},
        d \in {vector(0, 0, ONE), vector(0, 0, R(2)), vector(0, ONE, 0)} }

InitSphere ==
    /\ pc = "sphere"
    /\ \E m \in SphereTransforms, r \in SphereRays :
          args = Some([shape |-> Shape("Sphere", m, DefaultMaterial), ray |-> r])
    /\ camera = None /\ canvas = None /\ out = None
    /\ world = DefaultWorld /\ calls = <<>>
    /\ NoActivation

\* sphere.intersect(&ray)
Intersect ==
    /\ pc = "sphere"
    /\ out' = Some(intersect(unwrap(args).shape, unwrap(args).ray))
    /\ pc' = "intersected"
    /\ UNCHANGED <<world, calls, activation_vars, camera, canvas, args>>

SpecSphere == InitSphere /\ [][Intersect]_vars

\* b * b - 4 * a * c of the ray r, taken into the space of shape
Discriminant(shape, r) ==
    Let(transform(r, inverse(shape.transform)), LAMBDA local_ray :
    Let(TSub(local_ray.origin, point(0, 0, 0)), LAMBDA sphere_to_ray :
    Let(dot(local_ray.direction, local_ray.direction), LAMBDA a :
    Let(Mul(R(2), dot(local_ray.direction, sphere_to_ray)), LAMBDA b :
    Let(dot(sphere_to_ray, sphere_to_ray) - ONE, LAMBDA c :
        Mul(b, b) - Mul(Mul(R(4), a), c))))))

\* C23: a sphere's intersect returns nothing when the discriminant of the
\* object-space ray is negative, and otherwise two intersections in
\* ascending order of t, equal for a tangent ray, each with the sphere as its
\* object, those behind the origin of the ray included; the unit sphere is
\* hit at 4 and 6 from (0, 0, -5) along z.
C23_SphereIntersections ==
    pc = "intersected" =>
        Let2(unwrap(args), unwrap(out), LAMBDA a, intersections :
        Let(Discriminant(a.shape, a.ray), LAMBDA discriminant :
            /\ discriminant < 0 => intersections = <<>>
            /\ discriminant >= 0 =>
                /\ Len(intersections) = 2
                /\ intersections[1].t <= intersections[2].t
                /\ discriminant = 0 => intersections[1].t = intersections[2].t
                /\ \A k \in 1..2 : intersections[k].object = a.shape
            /\ (a.shape = Sphere /\ a.ray = Ray(point(0, 0, -R(5)), vector(0, 0, ONE))) =>
                   <<intersections[1].t, intersections[2].t>> = <<R(4), R(6)>>))

\* the sphere behind the ray: both intersections are returned, at -6 and -4
C23_Witness ==
    /\ pc = "intersected"
    /\ unwrap(args).shape = Sphere
    /\ unwrap(args).ray = Ray(point(0, 0, R(5)), vector(0, 0, ONE))
    /\ Len(unwrap(out)) = 2
    /\ unwrap(out)[1].t = -R(6)
    /\ unwrap(out)[2].t = -R(4)

\* the six derived fields of an intersection
DerivedFields(i) == <<i.point, i.over_point, i.eyev, i.normalv, i.inside, i.reflectv>>

NoneDerived(i) == \A k \in 1..6 : DerivedFields(i)[k] = None
AllDerived(i) == \A k \in 1..6 : is_some(DerivedFields(i)[k])

\* C24: the intersections intersect_world returns and the one find_hit
\* picks have no derived field set; the hit shade_hit works on, in the
\* activation under way and in every suspended one, is the one find_hit
\* picked with all six derived fields set by prepare_hit and t and object
\* unchanged; shade_hit is entered from color_at only, with the hit prepared.
C24_DerivedFieldsSetByPrepareHit ==
    /\ \A k \in 1..Len(xs) : NoneDerived(xs[k])
    /\ is_some(find_hit(xs)) => NoneDerived(unwrap(find_hit(xs)))
    /\ pc = "shade_hit" =>
        /\ is_some(hit) /\ is_some(find_hit(xs))
        /\ AllDerived(unwrap(hit))
        /\ unwrap(hit).t = unwrap(find_hit(xs)).t
        /\ unwrap(hit).object = unwrap(find_hit(xs)).object
        /\ unwrap(hit) = prepare_hit(unwrap(find_hit(xs)), ray)
    /\ \A k \in 1..Len(stack) :
        /\ is_some(stack[k].hit)
        /\ AllDerived(unwrap(stack[k].hit))

\* a prepared hit of the default world about to be shaded, the intersections
\* it was picked from still bare
C24_Witness ==
    /\ pc = "shade_hit"
    /\ world = DefaultWorld
    /\ Len(xs) = 4
    /\ NoneDerived(xs[1])
    /\ AllDerived(unwrap(hit))
    /\ unwrap(hit).t = xs[1].t

\* the material of the hit of the activation that waits for the one under way
CallerMaterial == unwrap(stack[Len(stack)].hit).object.material

\* C25: with remaining > 0 and a reflective material, reflected_color calls
\* color_at along reflectv with remaining - 1, and what it returns is the
\* color that call returned times material.reflective: black when the
\* reflection ray hit nothing.
C25_ReflectedColorScalesColorAt ==
    [][/\ (/\ pc = "shade_hit"
           /\ remaining > 0
           /\ HitMaterial.reflective # 0
           /\ pc' \notin {"panic", "stack_overflow"}) =>
              /\ pc' = "color_at"
              /\ remaining' = remaining - 1
              /\ ray'.direction = unwrap(unwrap(hit).reflectv)
              /\ stack' = Append(stack, stack'[Len(stack')])
              /\ stack'[Len(stack')].hit = hit
       /\ (pc = "return" /\ stack # <<>>) =>
              /\ stack[Len(stack)].remaining > 0
              /\ CallerMaterial.reflective # 0
              /\ remaining = stack[Len(stack)].remaining - 1
              /\ reflected' = Tuple(Mul(unwrap(ret).x, CallerMaterial.reflective),
                                    Mul(unwrap(ret).y, CallerMaterial.reflective),
                                    Mul(unwrap(ret).z, CallerMaterial.reflective),
                                    Mul(unwrap(ret).w, CallerMaterial.reflective))
              /\ hit = None => reflected' = color(0, 0, 0)
              /\ pc' = "return"
              /\ ret' = Some(TAdd(stack[Len(stack)].surface, reflected'))]_vars

\* the floor of reflective 0.5 shaded with half the color its reflection ray found
C25_Witness ==
    /\ Returning
    /\ stack = <<>>
    /\ Len(calls) = 2
    /\ is_some(hit)
    /\ HitMaterial.reflective = Half
    /\ remaining > 0
    /\ reflected # black
    /\ ret = Some(TAdd(surface, reflected))

\* something stands between the point and the light of the world
LightBlocked(w, p) ==
    /\ is_some(w.light_source)
    /\ TsAbove(ShadowXs(w, p), HIT_THRESHOLD) # {}
    /\ Least(TsAbove(ShadowXs(w, p), HIT_THRESHOLD)) < DistanceToLight(w, p)

\* lighting's arguments for the hit of the activation under way
HitLighting ==
    [material |-> HitMaterial, object |-> unwrap(hit).object,
     light |-> unwrap(world.light_source), point |-> unwrap(unwrap(hit).over_point)]

\* C26: for a hit whose over_point has something between it and the light,
\* shade_hit's lighting term is the ambient term alone; shade_hit returns it as
\* it is for a material that does not reflect, and with the reflected color
\* added for one that does.
C26_ShadowedHitIsAmbient ==
    (Returning /\ is_some(hit) /\ LightBlocked(world, unwrap(unwrap(hit).over_point))) =>
        /\ surface = Ambient(HitLighting)
        /\ HitMaterial.reflective = 0 => ret = Some(Ambient(HitLighting))
        /\ HitMaterial.reflective # 0 => ret = Some(TAdd(Ambient(HitLighting), reflected))

\* a mirror in shadow that shows something: ambient plus a reflected color
C26_Witness ==
    /\ Returning
    /\ is_some(hit)
    /\ LightBlocked(world, unwrap(unwrap(hit).over_point))
    /\ HitMaterial.reflective # 0
    /\ reflected # black
    /\ surface = Ambient(HitLighting)
    /\ surface # black

----------------------------------------------------------------------------
(* Rendering the pixels in any order, by workers that share the world and the
   camera *)

RECURSIVE color_at(_, _, _)

\* reflected_color: black without a ray, else the scaled color of the
\* reflection ray
reflected_color(self, w, budget) ==
    IF reflection_exhausted(self, budget)
    THEN color(0, 0, 0)
    ELSE reflect_scale(color_at(w, reflect_ray(self), reflect_budget(budget)), self)

\* shade_hit: the surface color and the reflected color; the light source is
\* unwrapped
shade_hit(self, w, budget) ==
    Let(is_shadowed(w, unwrap(self.over_point)), LAMBDA shadowed :
    Let(lighting(self.object.material, self.object, unwrap(w.light_source),
                 unwrap(self.over_point), unwrap(self.eyev), unwrap(self.normalv),
                 shadowed), LAMBDA s :
        shade_sum(s, reflected_color(self, w, budget))))

\* color_at as a function of the world, the ray and the budget, with the
\* order sort_unstable leaves for this input
color_at(w, r, budget) ==
    Let(CHOOSE s \in intersect_world(w, r) : TRUE, LAMBDA s :
    Let(find_hit(s), LAMBDA h :
        IF is_some(h)
        THEN shade_hit(prepare_hit(unwrap(h), r), w, budget)
        ELSE background))

RECURSIVE render_from(_, _, _, _)

\* the loops of render from the pixel of index i on, row after row
render_from(image, self, w, i) ==
    IF i >= self.hsize * self.vsize
    THEN image
    ELSE Let2(i % self.hsize, i \div self.hsize, LAMBDA x, y :
             render_from(write_pixel(image, x, y,
                                     color_at(w, render_ray(self, x, y), MAX_BOUNCES)),
                         self, w, i + 1))

\* Camera::render: one pixel after the other
render(self, w) == render_from(Canvas(self.hsize, self.vsize), self, w, 0)

\* the workers that render at the same time
Workers == 2

ParallelSizes == {<<2, 2>>, <<3, 2>>}

ParallelWorlds == {DefaultWorld, MirrorBallWorld}

\* args: the pixels no worker has taken, the pixel whose color is being
\* computed, and the colors computed and not yet written
InitParallel ==
    /\ pc = "workers"
    /\ \E size \in ParallelSizes, m \in {FrontView, BackView} :
          /\ camera = Some(Camera(size[1], size[2], NarrowView, m))
          /\ canvas = Some(Canvas(size[1], size[2]))
          /\ args = Some([todo |-> (0..(size[1] - 1)) \X (0..(size[2] - 1)),
                          cur |-> None, pending |-> {}])
    /\ world \in ParallelWorlds
    /\ out = None
    /\ calls = <<>>
    /\ NoActivation

\* a free worker takes any pixel left: its ray, and the color_at call, the
\* first of the calls made for this pixel
TakePixel ==
    /\ pc = "workers"
    /\ Cardinality(unwrap(args).pending) < Workers
    /\ \E p \in unwrap(args).todo :
        /\ args' = Some([unwrap(args) EXCEPT !.todo = @ \ {p}, !.cur = Some(p)])
        /\ ray' = render_ray(unwrap(camera), p[1], p[2])
    /\ remaining' = MAX_BOUNCES
    /\ calls' = <<Call(ray', remaining')>>
    /\ xs' = <<>> /\ hit' = None /\ surface' = black /\ reflected' = black
    /\ ret' = None /\ stack' = <<>>
    /\ pc' = "color_at"
    /\ UNCHANGED <<world, camera, canvas, out>>

\* color_at has returned to the worker, which holds the color
HoldColor ==
    /\ pc = "done"
    /\ is_some(args) /\ "pending" \in DOMAIN unwrap(args)
    /\ \E a \in {unwrap(args)} :
        args' = Some([a EXCEPT !.cur = None,
                               !.pending = @ \cup {[x |-> unwrap(a.cur)[1],
                                                    y |-> unwrap(a.cur)[2],
                                                    color |-> unwrap(ret)]}])
    /\ pc' = "workers"
    /\ UNCHANGED <<world, activation_vars, calls, camera, canvas, out>>

\* a worker that holds a color writes it, whatever the others are doing
WritePending ==
    /\ pc \in {"workers", "color_at", "shade_hit", "return", "done"}
    /\ is_some(args) /\ "pending" \in DOMAIN unwrap(args)
    /\ \E e \in unwrap(args).pending :
        /\ canvas' = Some(write_pixel(unwrap(canvas), e.x, e.y, e.color))
        /\ args' = Some([unwrap(args) EXCEPT !.pending = @ \ {e}])
    /\ UNCHANGED <<pc, world, activation_vars, calls, camera, out>>

\* every pixel is written: the workers are joined and the canvas returned
Join ==
    /\ pc = "workers"
    /\ unwrap(args).todo = {}
    /\ unwrap(args).pending = {}
    /\ out' = canvas
    /\ pc' = "joined"
    /\ UNCHANGED <<world, activation_vars, calls, camera, canvas, args>>

SpecParallel ==
    InitParallel /\ [][TakePixel \/ ColorAt \/ ShadeHit \/ Return \/ HoldColor
                          \/ WritePending \/ Join]_vars

\* the slots of the pixel buffer that a step changes
ChangedSlots ==
    {i \in 1..Len(unwrap(canvas).pixels) : unwrap(canvas').pixels[i] # unwrap(canvas).pixels[i]}

----------------------------------------------------------------------------
(* Canvas::index_to_coords *)

\* Canvas::index_to_coords: the column is idx % width, the row is computed as
\* width / idx; u32 division by zero panics, written None
index_to_coords(self, idx) ==
    IF idx = 0 THEN None
    ELSE Some(<<idx % self.width, self.width \div idx>>)

MaxCanvasWidth == 5
MaxCanvasHeight == 3

\* args: the coordinates of a pixel of the canvas
InitCoords ==
    /\ pc = "index"
    /\ \E width \in 1..MaxCanvasWidth, height \in 1..MaxCanvasHeight :
          /\ canvas = Some(Canvas(width, height))
          /\ \E x \in 0..(width - 1), y \in 0..(height - 1) :
                args = Some([x |-> x, y |-> y])
    /\ camera = None
    /\ out = None
    /\ world = DefaultWorld
    /\ calls = <<>>
    /\ NoActivation

\* index_to_coords on the index that coords_to_index gives the pixel
IndexToCoords ==
    /\ pc = "index"
    /\ \E r \in {index_to_coords(unwrap(canvas),
                                 coords_to_index(unwrap(canvas), unwrap(args).x,
                                                 unwrap(args).y))} :
          IF is_some(r)
          THEN pc' = "coords" /\ out' = r
          ELSE pc' = "panic" /\ out' = None
    /\ UNCHANGED <<world, calls, activation_vars, camera, canvas, args>>

SpecCoords == InitCoords /\ [][IndexToCoords]_vars

\* C28: index_to_coords is the inverse of coords_to_index: on a canvas with
\* width > 0, for x < width and y < height, index_to_coords(y * width + x)
\* returns (x, y), index 0 included.
C28_IndexToCoordsInverts ==
    pc # "index" =>
        /\ pc = "coords"
        /\ unwrap(out) = <<unwrap(args).x, unwrap(args).y>>

\* what the code returns: the column, and width / idx for the row; index 0
\* panics
C28_IndexToCoordsAsCoded ==
    /\ pc = "panic" => unwrap(args).x = 0 /\ unwrap(args).y = 0
    /\ pc = "coords" =>
          /\ unwrap(out)[1] = unwrap(args).x
          /\ unwrap(out)[2] =
                unwrap(canvas).width
                   \div (unwrap(args).y * unwrap(canvas).width + unwrap(args).x)

\* the pixel at (2, 1) of a canvas 5 wide has index 7, which is given the
\* coordinates (2, 0)
C28_Witness ==
    /\ pc = "coords"
    /\ unwrap(canvas).width = 5
    /\ unwrap(canvas).height = 3
    /\ unwrap(args) = [x |-> 2, y |-> 1]
    /\ unwrap(out) = <<2, 0>>

----------------------------------------------------------------------------
(* write_pixel outside the canvas *)

\* C29: write_pixel(x, y, c) with x >= width or y >= height is ignored: it
\* leaves every pixel of the canvas as it was, and pixel_at returns none for
\* such coordinates.
C29_OutOfRangeWriteIgnored ==
    [][\A x \in 0..MaxX, y \in 0..MaxY, col \in CanvasColors :
          ( /\ args' = Some(Append(unwrap(args), [x |-> x, y |-> y, color |-> col]))
            /\ (x >= unwrap(canvas).width \/ y >= unwrap(canvas).height) ) =>
               /\ canvas' = canvas
               /\ pixel_at(unwrap(canvas'), x, y) = None]_vars

\* what the code does: only an index y * width + x past the end of the buffer
\* is ignored; a row past the last one always is
C29_IndexPastEndIgnored ==
    [][\A x \in 0..MaxX, y \in 0..MaxY, col \in CanvasColors :
          ( /\ args' = Some(Append(unwrap(args), [x |-> x, y |-> y, color |-> col]))
            /\ (y >= unwrap(canvas).height
                  \/ y * unwrap(canvas).width + x >= Len(unwrap(canvas).pixels)) ) =>
               /\ canvas' = canvas
               /\ pixel_at(unwrap(canvas'), x, y) = None]_vars

\* on a canvas of 2 by 2 the write at (2, 0) has coloured the pixel at (0, 1),
\* and pixel_at(2, 0) returns that pixel
C29_Witness ==
    /\ pc = "canvas"
    /\ unwrap(canvas).width = 2
    /\ unwrap(canvas).height = 2
    /\ unwrap(args) = <<[x |-> 2, y |-> 0, color |-> color(ONE, 0, 0)]>>
    /\ pixel_at(unwrap(canvas), 0, 1) = Some(color(ONE, 0, 0))
    /\ pixel_at(unwrap(canvas), 2, 0) = Some(color(ONE, 0, 0))

----------------------------------------------------------------------------
(* color_at in a world without a light source *)

\* C30: color_at returns a color for every world, ray and budget and never
\* aborts, a world without a light source included: there is_shadowed is
\* false for every point, and a ray that hits a shape is shaded.
C30_ColorAtNeverAborts ==
    /\ pc # "panic"
    /\ (pc = "shade_hit" /\ ~is_some(world.light_source)) =>
           ~is_shadowed(world, unwrap(unwrap(hit).over_point))

\* what the code does: in a world without a light source is_shadowed is
\* false, every miss returns the background, and shade_hit panics on every
\* hit; a world with a light source never panics
C30_LightlessHitPanics ==
    /\ pc = "panic" => ~is_some(world.light_source) /\ is_some(hit) /\ ret = None
    /\ (pc = "shade_hit" /\ ~is_some(world.light_source)) =>
           ~is_shadowed(world, unwrap(unwrap(hit).over_point))
    /\ (pc \in {"return", "done"} /\ ~is_some(world.light_source)) =>
           hit = None /\ ret = Some(background)

\* the ray along z toward the sphere of the lightless world: the hit is
\* prepared, is_shadowed is false, and shade_hit has panicked
C30_Witness ==
    /\ pc = "panic"
    /\ world = DarkWorld
    /\ is_some(hit)
    /\ unwrap(hit).object = Sphere1
    /\ ~is_shadowed(world, unwrap(unwrap(hit).over_point))
    /\ ret = None
====
